---- MODULE Spec2Model ----
(***************************************************************************)
(* Wake2Text: the hotword-gated streaming transcription session of         *)
(* src/src/main.cpp (Whisper C API variant, "capi") and of                 *)
(* src/src/whisper_streaming_transcriber.cpp (whisper-cli process variant, *)
(* "cli", its _WIN32 branch).                                              *)
(*                                                                         *)
(* Text is a sequence of one-character strings; a byte outside ASCII is    *)
(* written "xHH".  Audio is a sequence of runs of samples of equal value.   *)
(***************************************************************************)
EXTENDS Integers, Sequences, FiniteSets, TLC

(***************************************************************************)
(* Program constants                                                       *)
(***************************************************************************)
SILENCE_THRESHOLD == 30
MIN_SPEECH_LENGTH == 8000
TRANSCRIPTION_CHUNK_SIZE == 48000
VAD_FRAME_SAMPLES == 2048
SAMPLE_RATE == 16000
MAX_LISTEN_SECONDS == 60
MIN_FINAL_SAMPLES == 8000
MIN_RMS_THRESHOLD == 50
SPEECH_THRESHOLD == 200
VAD_SILENCE == -2

(***************************************************************************)
(* std::string helpers                                                     *)
(***************************************************************************)
\* ::tolower in the "C" locale: A-Z to a-z, every other byte unchanged.
UpperCase == <<"A", "B", "C", "D", "E", "F", "G", "H", "I", "J", "K", "L", "M",
               "N", "O", "P", "Q", "R", "S", "T", "U", "V", "W", "X", "Y", "Z">>
LowerCase == <<"a", "b", "c", "d", "e", "f", "g", "h", "i", "j", "k", "l", "m",
               "n", "o", "p", "q", "r", "s", "t", "u", "v", "w", "x", "y", "z">>
tolower(c) ==
  IF \E i \in 1..26 : UpperCase[i] = c
  THEN LowerCase[CHOOSE i \in 1..26 : UpperCase[i] = c]
  ELSE c

\* std::transform(t.begin(), t.end(), t.begin(), ::tolower)
ToLower(t) == [i \in 1..Len(t) |-> tolower(t[i])]

\* t.compare(i, p.size(), p) == 0, positions counted from 1
MatchAt(t, p, i) ==
  /\ i + Len(p) - 1 <= Len(t)
  /\ \A k \in 1..Len(p) : t[i + k - 1] = p[k]

\* t.find(p) != std::string::npos
Contains(t, p) == \E i \in 1..(Len(t) + 1) : MatchAt(t, p, i)

\* t.rfind(p, 0) == 0
StartsWith(t, p) == MatchAt(t, p, 1)

\* t.find_first_not_of(set): the position, or 0 for npos
FindFirstNotOf(t, set) ==
  IF \E i \in 1..Len(t) : t[i] \notin set
  THEN CHOOSE i \in 1..Len(t) : t[i] \notin set /\ \A j \in 1..(i - 1) : t[j] \in set
  ELSE 0

\* t.find_last_not_of(set): the position, or 0 for npos
FindLastNotOf(t, set) ==
  IF \E i \in 1..Len(t) : t[i] \notin set
  THEN CHOOSE i \in 1..Len(t) : t[i] \notin set /\ \A j \in (i + 1)..Len(t) : t[j] \in set
  ELSE 0

Whitespace == {" ", "\t", "\n", "\r"}

\* start = find_first_not_of(ws); end = find_last_not_of(ws);
\* npos gives the empty text, else substr(start, end - start + 1)
Trim(t, set) ==
  IF FindFirstNotOf(t, set) = 0 THEN <<>>
  ELSE SubSeq(t, FindFirstNotOf(t, set), FindLastNotOf(t, set))

(***************************************************************************)
(* HallucinationFilter                                                     *)
(***************************************************************************)
\* main.cpp: the artifact phrases, matched as substrings
hallucinations_capi ==
  <<
    <<"xCF", "x85", "xCF", "x80", "xCF", "x8C", "xCF", "x84", "xCE", "xB9", "xCF", "x84", "xCE", "xBB", "xCE", "xBF", "xCE", "xB9">>,
    <<"a", "u", "t", "h", "o", "r", "w", "a", "v", "e">>,
    <<"s", "u", "b", "t", "i", "t", "l", "e", "s">>,
    <<"s", "u", "b", "t", "i", "t", "l", "e">>,
    <<"c", "l", "o", "s", "e", "d", " ", "c", "a", "p", "t", "i", "o", "n", "s">>,
    <<"c", "a", "p", "t", "i", "o", "n", "i", "n", "g">>,
    <<"t", "r", "a", "n", "s", "c", "r", "i", "p", "t", "i", "o", "n">>,
    <<"t", "r", "a", "n", "s", "c", "r", "i", "p", "t">>, <<"a", "u", "d", "i", "o">>,
    <<"m", "u", "s", "i", "c">>, <<"[", "m", "u", "s", "i", "c", "]">>,
    <<"[", "s", "o", "u", "n", "d", "]">>, <<"[", "n", "o", "i", "s", "e", "]">>,
    <<"[", "s", "i", "l", "e", "n", "c", "e", "]">>,
    <<"[", "i", "n", "a", "u", "d", "i", "b", "l", "e", "]">>,
    <<"t", "h", "a", "n", "k", " ", "y", "o", "u">>,
    <<"t", "h", "a", "n", "k", "s", " ", "f", "o", "r", " ", "w", "a", "t", "c", "h", "i", "n", "g">>,
    <<"s", "u", "b", "s", "c", "r", "i", "b", "e">>,
    <<"l", "i", "k", "e", " ", "a", "n", "d", " ", "s", "u", "b", "s", "c", "r", "i", "b", "e">>,
    <<"w", "w", "w", ".">>, <<".", "c", "o", "m">>, <<"h", "t", "t", "p">>,
    <<"h", "t", "t", "p", "s">>,
    <<"u", "n", "d", "e", "r", "t", "e", "k", "s", "t", "e", "r">>,
    <<"a", "i", "-", "m", "e", "d", "i", "a">>, <<"a", "i", " ", "m", "e", "d", "i", "a">>,
    <<"u", "n", "d", "e", "r", "t", "e", "k", "s", "t">>,
    <<"t", "e", "k", "s", "t", "e", "r">>,
    <<"u", "n", "t", "e", "r", "t", "i", "t", "e", "l">>,
    <<"s", "o", "u", "s", "-", "t", "i", "t", "r", "e", "s">>,
    <<"l", "e", "g", "e", "n", "d", "a", "s">>,
    <<"s", "o", "t", "t", "o", "t", "i", "t", "o", "l", "i">>
  >>

\* whisper_streaming_transcriber.cpp: the same list; its first entry is stored
\* in another encoding
hallucinations_cli ==
  <<
    <<"xC3", "x8F", "xE2", "x80", "xA6", "xC3", "x8F", "xE2", "x82", "xAC", "xC3", "x8F", "xC5", "x92", "xC3", "x8F", "xE2", "x80", "x9E", "xC3", "x8E", "xC2", "xB9", "xC3", "x8F", "xE2", "x80", "x9E", "xC3", "x8E", "xC2", "xBB", "xC3", "x8E", "xC2", "xBF", "xC3", "x8E", "xC2", "xB9">>,
    <<"a", "u", "t", "h", "o", "r", "w", "a", "v", "e">>,
    <<"s", "u", "b", "t", "i", "t", "l", "e", "s">>,
    <<"s", "u", "b", "t", "i", "t", "l", "e">>,
    <<"c", "l", "o", "s", "e", "d", " ", "c", "a", "p", "t", "i", "o", "n", "s">>,
    <<"c", "a", "p", "t", "i", "o", "n", "i", "n", "g">>,
    <<"t", "r", "a", "n", "s", "c", "r", "i", "p", "t", "i", "o", "n">>,
    <<"t", "r", "a", "n", "s", "c", "r", "i", "p", "t">>, <<"a", "u", "d", "i", "o">>,
    <<"m", "u", "s", "i", "c">>, <<"[", "m", "u", "s", "i", "c", "]">>,
    <<"[", "s", "o", "u", "n", "d", "]">>, <<"[", "n", "o", "i", "s", "e", "]">>,
    <<"[", "s", "i", "l", "e", "n", "c", "e", "]">>,
    <<"[", "i", "n", "a", "u", "d", "i", "b", "l", "e", "]">>,
    <<"t", "h", "a", "n", "k", " ", "y", "o", "u">>,
    <<"t", "h", "a", "n", "k", "s", " ", "f", "o", "r", " ", "w", "a", "t", "c", "h", "i", "n", "g">>,
    <<"s", "u", "b", "s", "c", "r", "i", "b", "e">>,
    <<"l", "i", "k", "e", " ", "a", "n", "d", " ", "s", "u", "b", "s", "c", "r", "i", "b", "e">>,
    <<"w", "w", "w", ".">>, <<".", "c", "o", "m">>, <<"h", "t", "t", "p">>,
    <<"h", "t", "t", "p", "s">>,
    <<"u", "n", "d", "e", "r", "t", "e", "k", "s", "t", "e", "r">>,
    <<"a", "i", "-", "m", "e", "d", "i", "a">>, <<"a", "i", " ", "m", "e", "d", "i", "a">>,
    <<"u", "n", "d", "e", "r", "t", "e", "k", "s", "t">>,
    <<"t", "e", "k", "s", "t", "e", "r">>,
    <<"u", "n", "t", "e", "r", "t", "i", "t", "e", "l">>,
    <<"s", "o", "u", "s", "-", "t", "i", "t", "r", "e", "s">>,
    <<"l", "e", "g", "e", "n", "d", "a", "s">>,
    <<"s", "o", "t", "t", "o", "t", "i", "t", "o", "l", "i">>
  >>

\* the standalone artifact tokens (identical in both files)
standalone_hallucinations ==
  <<
    <<"t", "h", "a", "n", "k", "y", "o", "u">>,
    <<"t", "h", "a", "n", "k", "y", "o", "u", "f", "o", "r", "w", "a", "t", "c", "h", "i", "n", "g">>,
    <<"t", "h", "a", "n", "k", "s">>,
    <<"t", "h", "a", "n", "k", "s", "f", "o", "r", "w", "a", "t", "c", "h", "i", "n", "g">>,
    <<"s", "u", "b", "s", "c", "r", "i", "b", "e">>,
    <<"l", "i", "k", "e", "a", "n", "d", "s", "u", "b", "s", "c", "r", "i", "b", "e">>,
    <<"p", "l", "e", "a", "s", "e", "s", "u", "b", "s", "c", "r", "i", "b", "e">>
  >>

\* whisper-cli console lines that are diagnostics, recognised by prefix
noise_prefixes ==
  <<
    <<"s", "y", "s", "t", "e", "m", "_", "i", "n", "f", "o", ":">>,
    <<"w", "h", "i", "s", "p", "e", "r", "_", "p", "r", "i", "n", "t", "_", "t", "i", "m", "i", "n", "g", "s", ":">>,
    <<"m", "a", "i", "n", ":">>, <<"g", "g", "m", "l", ":">>,
    <<"w", "h", "i", "s", "p", "e", "r", ":">>, <<"m", "e", "m", "c", "p", "y", "(">>,
    <<"A", "V", "X">>, <<"w", "h", "i", "s", "p", "e", "r", "_", "i", "n", "i", "t", "_">>,
    <<"w", "h", "i", "s", "p", "e", "r", "_", "m", "o", "d", "e", "l", "_">>,
    <<"w", "h", "i", "s", "p", "e", "r", "_", "b", "a", "c", "k", "e", "n", "d", "_">>,
    <<"w", "h", "i", "s", "p", "e", "r", "_", "f", "u", "l", "l", "_">>,
    <<"l", "o", "a", "d", " ", "t", "i", "m", "e">>,
    <<"f", "a", "l", "l", "b", "a", "c", "k", "s">>,
    <<"m", "e", "l", " ", "t", "i", "m", "e">>,
    <<"s", "a", "m", "p", "l", "e", " ", "t", "i", "m", "e">>,
    <<"e", "n", "c", "o", "d", "e", " ", "t", "i", "m", "e">>,
    <<"d", "e", "c", "o", "d", "e", " ", "t", "i", "m", "e">>,
    <<"b", "a", "t", "c", "h", "d", " ", "t", "i", "m", "e">>,
    <<"p", "r", "o", "m", "p", "t", " ", "t", "i", "m", "e">>,
    <<"t", "o", "t", "a", "l", " ", "t", "i", "m", "e">>,
    <<"a", "u", "t", "o", "-", "d", "e", "t", "e", "c", "t", "e", "d", " ", "l", "a", "n", "g", "u", "a", "g", "e", ":">>,
    <<"p", "r", "o", "c", "e", "s", "s", "i", "n", "g", " ", "'">>,
    <<"t", "h", "r", "e", "a", "d", "s">>,
    <<"p", "r", "o", "c", "e", "s", "s", "o", "r", "s">>, <<"b", "e", "a", "m", "s">>,
    <<"l", "a", "n", "g", " ", "=">>, <<"t", "a", "s", "k", " ", "=">>,
    <<"t", "i", "m", "e", "s", "t", "a", "m", "p", "s", " ", "=">>,
    <<"g", "g", "m", "l", "_", "c", "u", "d", "a", "_", "i", "n", "i", "t", ":">>,
    <<"D", "e", "v", "i", "c", "e", " ", "0", ":">>,
    <<"c", "o", "m", "p", "u", "t", "e", " ", "c", "a", "p", "a", "b", "i", "l", "i", "t", "y">>,
    <<"V", "M", "M", ":">>,
    <<"G", "G", "M", "L", "_", "C", "U", "D", "A", "_", "F", "O", "R", "C", "E">>,
    <<"w", "h", "i", "s", "p", "e", "r", "_", "i", "n", "i", "t", "_", "f", "r", "o", "m", "_", "f", "i", "l", "e">>,
    <<"u", "s", "e", " ", "g", "p", "u">>,
    <<"f", "l", "a", "s", "h", " ", "a", "t", "t", "n">>,
    <<"g", "p", "u", "_", "d", "e", "v", "i", "c", "e">>, <<"d", "t", "w">>,
    <<"d", "e", "v", "i", "c", "e", "s">>, <<"b", "a", "c", "k", "e", "n", "d", "s">>,
    <<"w", "h", "i", "s", "p", "e", "r", "_", "m", "o", "d", "e", "l", "_", "l", "o", "a", "d", ":">>,
    <<"n", "_", "v", "o", "c", "a", "b">>, <<"n", "_", "a", "u", "d", "i", "o">>,
    <<"n", "_", "t", "e", "x", "t">>, <<"n", "_", "m", "e", "l", "s">>,
    <<"f", "t", "y", "p", "e">>, <<"q", "n", "t", "v", "r">>, <<"t", "y", "p", "e">>,
    <<"a", "d", "d", "i", "n", "g">>,
    <<"e", "x", "t", "r", "a", " ", "t", "o", "k", "e", "n", "s">>,
    <<"n", "_", "l", "a", "n", "g", "s">>,
    <<"C", "U", "D", "A", "0", " ", "t", "o", "t", "a", "l", " ", "s", "i", "z", "e">>,
    <<"m", "o", "d", "e", "l", " ", "s", "i", "z", "e">>,
    <<"w", "h", "i", "s", "p", "e", "r", "_", "b", "a", "c", "k", "e", "n", "d", "_", "i", "n", "i", "t", "_", "g", "p", "u", ":">>,
    <<"u", "s", "i", "n", "g", " ", "C", "U", "D", "A">>,
    <<"w", "h", "i", "s", "p", "e", "r", "_", "i", "n", "i", "t", "_", "s", "t", "a", "t", "e", ":">>,
    <<"k", "v", " ", "s", "e", "l", "f", " ", "s", "i", "z", "e">>,
    <<"k", "v", " ", "c", "r", "o", "s", "s", " ", "s", "i", "z", "e">>,
    <<"k", "v", " ", "p", "a", "d", " ", "s", "i", "z", "e">>,
    <<"c", "o", "m", "p", "u", "t", "e", " ", "b", "u", "f", "f", "e", "r">>,
    <<"W", "H", "I", "S", "P", "E", "R", " ", ":">>, <<"C", "P", "U", " ", ":">>,
    <<"S", "S", "E", "3">>, <<"S", "S", "S", "E", "3">>, <<"A", "V", "X">>, <<"F", "M", "A">>,
    <<"A", "V", "X", "5", "1", "2">>, <<"O", "P", "E", "N", "M", "P">>,
    <<"R", "E", "P", "A", "C", "K">>
  >>

Punctuation_few == {".", ",", " ", "\t", "\n", "\r"}
Punctuation == {".", ",", "!", "?", " ", "\t", "\n", "\r"}

\* the phrase list of a variant
hallucinations(v) == IF v = "capi" THEN hallucinations_capi ELSE hallucinations_cli

\* isHallucination of main.cpp; the cli variant writes the same two checks
\* inline, in handle_line and in processAudioChunk
\* the first loop: lower_text.find(halluc) != npos for some phrase of the list
ContainsHallucination(v, lower_text) ==
  \E i \in 1..Len(hallucinations(v)) : Contains(lower_text, hallucinations(v)[i])

\* remove_if of the eight characters, then the second loop
IsStandalone(lower_text) ==
  \E i \in 1..Len(standalone_hallucinations) :
    SelectSeq(lower_text, LAMBDA c : c \notin Punctuation) = standalone_hallucinations[i]

isHallucination(v, text) ==
  \/ ContainsHallucination(v, ToLower(text))
  \/ IsStandalone(ToLower(text))

(***************************************************************************)
(* RecognitionEngine adapters                                              *)
(***************************************************************************)
\* result += " " unless result is empty; result += text
AppendSpaced(result, text) ==
  IF result = <<>> THEN text ELSE result \o <<" ">> \o text

\* main.cpp, the loop over whisper_full_n_segments
RECURSIVE SegmentLoop(_, _, _)
SegmentLoop(segs, i, result) ==
  IF i > Len(segs) THEN result
  ELSE LET text == segs[i]
           segment_text == Trim(text, Whitespace)
       IN  IF text # <<>> /\ FindFirstNotOf(text, Whitespace) # 0
              /\ ~isHallucination("capi", segment_text)
           THEN SegmentLoop(segs, i + 1, AppendSpaced(result, segment_text))
           ELSE SegmentLoop(segs, i + 1, result)

\* main.cpp transcribeWithWhisper: e.rc is whisper_full's return value and
\* e.segs the segment texts of the context afterwards
transcribeWithWhisper_capi(e) ==
  IF e.rc # 0 THEN <<>> ELSE SegmentLoop(e.segs, 1, <<>>)

\* handle_line of the cli variant: one console line of whisper-cli
handle_line(result, raw) ==
  LET line == Trim(raw, Whitespace)
      rb == IF \E i \in 1..Len(line) : line[i] = "]"
            THEN CHOOSE i \in 1..Len(line) :
                   line[i] = "]" /\ \A j \in 1..(i - 1) : line[j] # "]"
            ELSE 0
      after == Trim(SubSeq(line, rb + 1, Len(line)), Whitespace)
  IN  IF line = <<>> THEN result
      ELSE IF Len(line) > 1 /\ line[1] = "[" /\ rb # 0 /\ rb < Len(line)
      THEN IF after # <<>> /\ ~isHallucination("cli", after)
           THEN AppendSpaced(result, after)
           ELSE result
      ELSE IF \E i \in 1..Len(noise_prefixes) : StartsWith(line, noise_prefixes[i])
      THEN result
      ELSE AppendSpaced(result, line)

RECURSIVE LineLoop(_, _, _)
LineLoop(lines, i, result) ==
  IF i > Len(lines) THEN result
  ELSE LineLoop(lines, i + 1, handle_line(result, lines[i]))

CreatePipeFailed ==
  <<"[", "C", "r", "e", "a", "t", "e", "P", "i", "p", "e", " ",
    "f", "a", "i", "l", "e", "d", "]">>

CreateProcessFailed(err) ==
  <<"[", "C", "r", "e", "a", "t", "e", "P", "r", "o", "c", "e", "s", "s", " ",
    "f", "a", "i", "l", "e", "d", ":", " ">> \o err \o <<"]">>

\* whisper_streaming_transcriber.cpp transcribeWithWhisper, _WIN32 branch:
\* e.pipe and e.spawn tell whether CreatePipe and CreateProcessA succeeded,
\* e.err is GetLastError() in decimal, e.lines the child's console lines
\* (stdout and stderr), e.exit_code its exit code (read, then used only in a
\* debug print)
transcribeWithWhisper_cli(e) ==
  IF ~e.pipe THEN CreatePipeFailed
  ELSE IF ~e.spawn THEN CreateProcessFailed(e.err)
  ELSE Trim(LineLoop(e.lines, 1, <<>>), {" "})

transcribeWithWhisper(v, e) ==
  IF v = "capi" THEN transcribeWithWhisper_capi(e) ELSE transcribeWithWhisper_cli(e)

(***************************************************************************)
(* The environment: what the engines can answer                            *)
(***************************************************************************)
Stamp == <<"[", "0", "0", ":", "0", "0", ":", "0", "0", ".", "0", "0", "0", " ", "-", "-", ">", " ", "0", "0", ":", "0", "0", ":", "0", "3", ".", "0", "0", "0", "]", " ", " ", " ">>
t_hi == <<"h", "i">>
t_watching == <<"T", "h", "a", "n", "k", "s", " ", "f", "o", "r", " ", "w", "a", "t", "c", "h", "i", "n", "g", "!">>
t_error == <<"e", "r", "r", "o", "r", ":", " ", "f", "a", "i", "l", "e", "d", " ", "t", "o", " ", "r", "e", "a", "d", " ", "a", "u", "d", "i", "o">>

\* whisper_full and the segments it leaves in the context
EngineOutputs_capi ==
  { [rc |-> 0, segs |-> <<>>],
    [rc |-> 1, segs |-> <<>>],
    [rc |-> 0, segs |-> << <<" ">> \o t_hi >>],
    [rc |-> 0, segs |-> << <<" ">> \o t_watching >>] }

\* CreatePipe, CreateProcessA and the console output of whisper-cli
EngineOutputs_cli ==
  { [pipe |-> TRUE, spawn |-> TRUE, err |-> <<>>, lines |-> <<>>, exit_code |-> 0],
    [pipe |-> FALSE, spawn |-> FALSE, err |-> <<>>, lines |-> <<>>, exit_code |-> 0],
    [pipe |-> TRUE, spawn |-> FALSE, err |-> <<"2">>, lines |-> <<>>, exit_code |-> 0],
    [pipe |-> TRUE, spawn |-> TRUE, err |-> <<>>, lines |-> << Stamp \o t_hi >>,
     exit_code |-> 0],
    [pipe |-> TRUE, spawn |-> TRUE, err |-> <<>>, lines |-> << Stamp \o t_watching >>,
     exit_code |-> 0],
    [pipe |-> TRUE, spawn |-> TRUE, err |-> <<>>, lines |-> << t_watching >>,
     exit_code |-> 0],
    [pipe |-> TRUE, spawn |-> TRUE, err |-> <<>>, lines |-> << t_error >>,
     exit_code |-> 1] }

EngineOutputs(v) == IF v = "capi" THEN EngineOutputs_capi ELSE EngineOutputs_cli

\* the answer that carries no text: the engine ran and recognised nothing
Nothing(v) ==
  IF v = "capi" THEN [rc |-> 0, segs |-> <<>>]
  ELSE [pipe |-> TRUE, spawn |-> TRUE, err |-> <<>>, lines |-> <<>>, exit_code |-> 0]

\* the call did not run the engine to the end: whisper_full returned non-zero,
\* or the pipe, the process or its exit code failed
EngineFailed(e) ==
  IF "rc" \in DOMAIN e THEN e.rc # 0
  ELSE ~e.pipe \/ ~e.spawn \/ e.exit_code # 0


(***************************************************************************)
(* Audio representation and bounds of the exploration                      *)
(*                                                                         *)
(* A std::vector<short> is written as a sequence of runs: a run            *)
(* [id, n, val, sent, ov] stands for n consecutive samples of value val,   *)
(* the first of them being sample number id of the samples captured since  *)
(* the trigger.  sent counts the recognition calls that received these     *)
(* samples, ov tells whether they lay in the overlap kept after the last   *)
(* such call.  Adjacent runs that continue each other are kept merged.     *)
(***************************************************************************)
\* samples per frame returned by audio_in->read
FrameSamples == 24000
\* frames fed while Listening, over the whole run
MaxFed == 36
\* frames fed in a run of uninterrupted speech
MaxFedLong == 42
\* frames fed while Listening when the capture can stall
MaxFedBurst == 4
\* hotword triggers over the whole run
MaxCycles == 2
\* the engine stops producing text once the transcript is this long
MaxText == 4
\* frames of a cycle in which the speaker may still be speaking
MaxActive == 5
\* sample value of a frame with speech in it; silence is 0
Loud == 205
\* longest run of equal samples in a buffer given to hasSubstantialSpeech alone
MaxGateRun == 200
\* frames at the audio device, and frames read, in the specification of the
\* loop's thread
MaxWaiting == 2
MaxReads == 3
\* segments of a cycle in the transcript specification, a call without
\* segments counting as one
MaxAssembled == 4

Variants == {"capi", "cli"}
Amplitudes == {0, Loud}
\* SnowboyVad::RunVad: -2 silence, -1 error, 0 voice
VadResults == {VAD_SILENCE, -1, 0}
\* SnowboyDetect::RunDetection: -2 silence, -1 error, 0 no hotword, 1 hotword
DetectionResults == {-2, -1, 0, 1}

VARIABLES
  variant,                 \* which source file is running
  is_listening, audio_buffer, silence_counter, speech_counter,
  current_transcription, transcription_started, chunk_count, recorded_samples,
  obs,                     \* what the last loop iteration did
  hist,                    \* bookkeeping about the run and the current cycle
  applied,                 \* the last call of a function made outside the loop
  loop                     \* where the thread of the loop is, call by call

vars == <<variant, is_listening, audio_buffer, silence_counter, speech_counter,
          current_transcription, transcription_started, chunk_count,
          recorded_samples, obs, hist, applied, loop>>

\* abs computed in 16 bits, where -32768 has no positive; C13 fails for it
Abs_short(x) == IF x < 0 /\ x # -32768 THEN -x ELSE x
\* abs(sample): the short is promoted to int
Abs(x) == IF x < 0 THEN -x ELSE x
Max(a, b) == IF a >= b THEN a ELSE b

\* buf.size()
RECURSIVE Size(_)
Size(buf) == IF buf = <<>> THEN 0 ELSE Head(buf).n + Size(Tail(buf))

\* run b continues run a
Continues(a, b) ==
  a.id + a.n = b.id /\ a.val = b.val /\ a.sent = b.sent /\ a.ov = b.ov

\* a followed by b
Join(a, b) ==
  IF a = <<>> THEN b
  ELSE IF b = <<>> THEN a
  ELSE IF Continues(a[Len(a)], b[1])
  THEN SubSeq(a, 1, Len(a) - 1)
         \o <<[a[Len(a)] EXCEPT !.n = @ + b[1].n]>>
         \o SubSeq(b, 2, Len(b))
  ELSE a \o b

\* std::vector<short>(buf.begin(), buf.begin() + k)
RECURSIVE Take(_, _)
Take(buf, k) ==
  IF k <= 0 \/ buf = <<>> THEN <<>>
  ELSE IF Head(buf).n <= k THEN <<Head(buf)>> \o Take(Tail(buf), k - Head(buf).n)
  ELSE <<[Head(buf) EXCEPT !.n = k]>>

\* buf.erase(buf.begin(), buf.begin() + k)
RECURSIVE Erase(_, _)
Erase(buf, k) ==
  IF k <= 0 \/ buf = <<>> THEN buf
  ELSE IF Head(buf).n <= k THEN Erase(Tail(buf), k - Head(buf).n)
  ELSE <<[Head(buf) EXCEPT !.id = @ + k, !.n = @ - k]>> \o Tail(buf)

(***************************************************************************)
(* SpeechGate                                                              *)
(***************************************************************************)
RECURSIVE SumSquares(_)
SumSquares(chunk) ==
  IF chunk = <<>> THEN 0
  ELSE Head(chunk).n * Head(chunk).val * Head(chunk).val + SumSquares(Tail(chunk))

RECURSIVE SpeechSamples(_)
SpeechSamples(chunk) ==
  IF chunk = <<>> THEN 0
  ELSE (IF Abs(Head(chunk).val) > SPEECH_THRESHOLD THEN Head(chunk).n ELSE 0)
       + SpeechSamples(Tail(chunk))

\* the gate without the test for the empty buffer; C12 fails for it
hasSubstantialSpeech_noempty(audio_chunk) ==
  /\ ~(SumSquares(audio_chunk)
         < MIN_RMS_THRESHOLD * MIN_RMS_THRESHOLD * Size(audio_chunk))
  /\ ~(1000 * SpeechSamples(audio_chunk) < 5 * Size(audio_chunk))

\* hasSubstantialSpeech: sqrt(sum_squares / n) < 50 is sum_squares < 2500 * n,
\* and speech_samples / n < 0.005 is 1000 * speech_samples < 5 * n
hasSubstantialSpeech(audio_chunk) ==
  /\ audio_chunk # <<>>
  /\ ~(SumSquares(audio_chunk)
         < MIN_RMS_THRESHOLD * MIN_RMS_THRESHOLD * Size(audio_chunk))
  /\ ~(1000 * SpeechSamples(audio_chunk) < 5 * Size(audio_chunk))

(***************************************************************************)
(* ChunkWindow: processAudioChunk                                          *)
(***************************************************************************)
\* a skip that keeps no more than the first accepted chunk does; C22 fails for it
SkippedOverlap_first(v) ==
  IF v = "capi" THEN TRANSCRIPTION_CHUNK_SIZE \div 32 ELSE TRANSCRIPTION_CHUNK_SIZE \div 16

SkippedOverlap(v) ==
  IF v = "capi" THEN TRANSCRIPTION_CHUNK_SIZE \div 8 ELSE TRANSCRIPTION_CHUNK_SIZE \div 4
\* half a chunk kept after the first sent chunk; C33 fails for it
FirstOverlap_half(v) == TRANSCRIPTION_CHUNK_SIZE \div 2

FirstOverlap(v) ==
  IF v = "capi" THEN TRANSCRIPTION_CHUNK_SIZE \div 32 ELSE TRANSCRIPTION_CHUNK_SIZE \div 16
\* an overlap after later chunks that is larger than the first one; C6 fails for it
SubsequentOverlap_grown(v) == TRANSCRIPTION_CHUNK_SIZE \div 8
\* an overlap after later chunks of three quarters of a chunk; C7 fails for it
SubsequentOverlap_wide(v) == 3 * (TRANSCRIPTION_CHUNK_SIZE \div 4)
SubsequentOverlap(v) ==
  IF v = "capi" THEN TRANSCRIPTION_CHUNK_SIZE \div 64 ELSE TRANSCRIPTION_CHUNK_SIZE \div 32

RECURSIVE Normalize(_)
Normalize(buf) ==
  IF Len(buf) <= 1 THEN buf ELSE Join(<<Head(buf)>>, Normalize(Tail(buf)))

\* the runs start at sample number `start` and follow each other without a gap
RECURSIVE Contiguous(_, _)
Contiguous(buf, start) ==
  \/ buf = <<>>
  \/ Head(buf).id = start /\ Contiguous(Tail(buf), start + Head(buf).n)

\* the samples of buf, number and value, without the bookkeeping of calls
Plain(buf) ==
  Normalize([i \in 1..Len(buf) |-> [buf[i] EXCEPT !.sent = 0, !.ov = FALSE]])

RECURSIVE MaxSent(_)
MaxSent(buf) == IF buf = <<>> THEN 0 ELSE Max(Head(buf).sent, MaxSent(Tail(buf)))

Mark(buf, ov) == [i \in 1..Len(buf) |-> [buf[i] EXCEPT !.sent = @ + 1, !.ov = ov]]

\* a recognition call receives the first k samples of buf and `overlap` is the
\* overlap the code keeps of them
MarkSent(buf, k, overlap) ==
  Normalize(Mark(Take(buf, k - overlap), FALSE)
            \o Mark(Take(Erase(buf, k - overlap), overlap), TRUE)
            \o Erase(buf, k))

\* bookkeeping of one extraction that leaves the buffer `kept`: the samples
\* removed are those the buffer lost from its front, the overlap is the one the
\* code computed
NoteExtraction(s, gate, overlap, kept) ==
  [s EXCEPT
     !.audio_buffer = kept,
     !.obs.extractions =
        Append(@, [gate |-> gate, overlap |-> overlap,
                   first |-> s.audio_buffer[1].id,
                   held |-> Size(s.audio_buffer),
                   chunk |-> Plain(Take(s.audio_buffer, TRANSCRIPTION_CHUNK_SIZE)),
                   removed |-> Size(s.audio_buffer) - Size(kept),
                   chunk_count |-> IF gate THEN s.chunk_count - 1 ELSE s.chunk_count]),
     !.hist.consumed = @ + Size(s.audio_buffer) - Size(kept),
     !.hist.in_order =
        /\ @
        /\ Contiguous(Take(s.audio_buffer, Size(s.audio_buffer) - Size(kept)),
                      s.hist.consumed + 1)
        /\ Contiguous(kept, s.hist.consumed + Size(s.audio_buffer) - Size(kept) + 1),
     !.hist.first_overlap = IF @ = -1 THEN overlap ELSE @,
     !.hist.prev_overlap = overlap,
     !.hist.overlap_grew = @ \/ (s.hist.prev_overlap # -1 /\ overlap > s.hist.prev_overlap),
     !.hist.prev_sent_overlap = IF gate THEN overlap ELSE @,
     !.hist.sent_overlap_grew =
        @ \/ (gate /\ s.hist.prev_sent_overlap # -1 /\ overlap > s.hist.prev_sent_overlap)]

\* bookkeeping of one recognition call on the first k samples of the buffer:
\* text is what the adapter returned, appended what the transcript gained
NoteCall(s, kind, k, failed, text, appended) ==
  [s EXCEPT
     !.obs.calls =
        Append(@, [kind |-> kind, first |-> s.audio_buffer[1].id, samples |-> k,
                   failed |-> failed, text |-> text, appended |-> appended]),
     !.hist.max_sent = Max(@, 1 + MaxSent(Take(s.audio_buffer, k))),
     !.hist.resent_outside_overlap =
        @ \/ \E i \in 1..Len(Take(s.audio_buffer, k)) :
               s.audio_buffer[i].sent > 0 /\ ~s.audio_buffer[i].ov]

\* a skipped chunk that is counted like a sent one; C36 fails for it
SkipChunk_counted(s) ==
  LET overlap == SkippedOverlap(s.variant)
  IN  NoteExtraction([s EXCEPT !.chunk_count = @ + 1], FALSE, overlap,
                     Erase(s.audio_buffer, TRANSCRIPTION_CHUNK_SIZE - overlap))

\* a skip that keeps the head of the chunk in place of its tail; C5 fails for it
SkipChunk_head(s) ==
  LET overlap == SkippedOverlap(s.variant)
  IN  NoteExtraction(s, FALSE, overlap,
                     Take(s.audio_buffer, overlap)
                       \o Erase(s.audio_buffer, TRANSCRIPTION_CHUNK_SIZE))

\* the branch of processAudioChunk taken when the gate rejects the chunk
SkipChunk(s) ==
  LET overlap == SkippedOverlap(s.variant)
  IN  NoteExtraction(s, FALSE, overlap,
                     Erase(s.audio_buffer, TRANSCRIPTION_CHUNK_SIZE - overlap))

\* the text of a chunk is kept unless it is empty or, in the cli variant, the
\* whole text is a hallucination
ChunkTextAccepted(v, transcribed_text) ==
  /\ transcribed_text # <<>>
  /\ v = "cli" => ~isHallucination(v, transcribed_text)

\* the two results of a call, computed once per answer
Transcribed ==
  [v \in Variants |-> [e \in EngineOutputs(v) |-> transcribeWithWhisper(v, e)]]
ChunkAccepted ==
  [v \in Variants |->
     [e \in EngineOutputs(v) |-> ChunkTextAccepted(v, transcribeWithWhisper(v, e))]]

\* a transcript marked started by any result of a call; C34 fails for it
AppendTranscribed_any(s, transcribed_text, accepted) ==
  [s EXCEPT !.transcription_started = TRUE,
            !.current_transcription =
               IF accepted THEN @ \o transcribed_text \o <<" ">> ELSE @]

\* if (!transcribed_text.empty()) and, in the cli variant, not a hallucination:
\* transcription_started = true; current_transcription += transcribed_text + " "
AppendTranscribed(s, transcribed_text, accepted) ==
  [s EXCEPT !.transcription_started = IF accepted THEN TRUE ELSE @,
            !.current_transcription =
               IF accepted THEN @ \o transcribed_text \o <<" ">> ELSE @]

AppendChunkText(s, failed, transcribed_text, accepted) ==
  AppendTranscribed(NoteCall(s, "chunk", TRANSCRIPTION_CHUNK_SIZE, failed, transcribed_text,
                             IF accepted THEN transcribed_text \o <<" ">> ELSE <<>>),
                    transcribed_text, accepted)

\* an erase of the overlap's length in place of the chunk's front; C39 fails
\* for it
EraseSentChunk_front(s, overlap) ==
  NoteExtraction(s, TRUE, overlap, Erase(s.audio_buffer, overlap))

\* chunk_count++; the overlap chosen by chunk_count; audio_buffer.erase
EraseSentChunk(s, overlap) ==
  NoteExtraction(s, TRUE, overlap,
                 Erase(s.audio_buffer, TRANSCRIPTION_CHUNK_SIZE - overlap))

TrimSentChunk(s, overlap) ==
  EraseSentChunk([s EXCEPT !.audio_buffer =
                              MarkSent(@, TRANSCRIPTION_CHUNK_SIZE, overlap)],
                 overlap)

\* a chunk counted only when its text is kept; C25 fails for it
SendChunk_kept(s, e) ==
  TrimSentChunk([AppendChunkText(s, EngineFailed(e), Transcribed[s.variant][e],
                                 ChunkAccepted[s.variant][e])
                   EXCEPT !.chunk_count =
                            IF ChunkAccepted[s.variant][e] THEN @ + 1 ELSE @],
                IF s.chunk_count + 1 = 1 THEN FirstOverlap(s.variant)
                ELSE SubsequentOverlap(s.variant))

\* an overlap chosen by the chunk count before its increment; C23 fails for it
SendChunk_before(s, e) ==
  TrimSentChunk([AppendChunkText(s, EngineFailed(e), Transcribed[s.variant][e],
                                 ChunkAccepted[s.variant][e])
                   EXCEPT !.chunk_count = @ + 1],
                IF s.chunk_count = 1 THEN FirstOverlap(s.variant)
                ELSE SubsequentOverlap(s.variant))

\* the rest of processAudioChunk: recognition, transcript, chunk_count, trim
SendChunk(s, e) ==
  TrimSentChunk([AppendChunkText(s, EngineFailed(e), Transcribed[s.variant][e],
                                 ChunkAccepted[s.variant][e])
                   EXCEPT !.chunk_count = @ + 1],
                IF s.chunk_count + 1 = 1 THEN FirstOverlap(s.variant)
                ELSE SubsequentOverlap(s.variant))

\* an extraction without the size test; C24 fails for it
processAudioChunk_short(s, e) ==
  IF ~hasSubstantialSpeech(Take(s.audio_buffer, TRANSCRIPTION_CHUNK_SIZE))
  THEN SkipChunk(s)
  ELSE SendChunk(s, e)

processAudioChunk(s, e) ==
  IF Size(s.audio_buffer) >= TRANSCRIPTION_CHUNK_SIZE
  THEN IF ~hasSubstantialSpeech(Take(s.audio_buffer, TRANSCRIPTION_CHUNK_SIZE))
       THEN SkipChunk(s)
       ELSE SendChunk(s, e)
  ELSE s

(***************************************************************************)
(* Finalization and TranscriptAssembler                                    *)
(***************************************************************************)
\* clean_text.find("  ", pos): the position, or 0 for npos
FindDoubleSpace(t, pos) ==
  IF \E i \in pos..(Len(t) - 1) : t[i] = " " /\ t[i + 1] = " "
  THEN CHOOSE i \in pos..(Len(t) - 1) :
         /\ t[i] = " " /\ t[i + 1] = " "
         /\ \A j \in pos..(i - 1) : ~(t[j] = " " /\ t[j + 1] = " ")
  ELSE 0

\* while ((pos = clean_text.find("  ", pos)) != npos) clean_text.replace(pos, 2, " ")
RECURSIVE CollapseSpaces(_, _)
CollapseSpaces(t, pos) ==
  LET p == FindDoubleSpace(t, pos)
  IN  IF p = 0 THEN t
      ELSE CollapseSpaces(SubSeq(t, 1, p) \o SubSeq(t, p + 2, Len(t)), p)

\* a report that keeps the spaces at both ends; C16 fails for it
TrimSpaces_none(t) == t

\* erase(0, find_first_not_of(" ")) then erase(find_last_not_of(" ") + 1);
\* npos erases everything in the first and is -1 + 1 = 0 in the second
TrimSpaces(t) ==
  LET a == IF FindFirstNotOf(t, {" "}) = 0 THEN <<>>
           ELSE SubSeq(t, FindFirstNotOf(t, {" "}), Len(t))
  IN  SubSeq(a, 1, FindLastNotOf(a, {" "}))

CleanText(t) == TrimSpaces(CollapseSpaces(t, 1))

\* std::count(clean_text.begin(), clean_text.end(), ' ') + 1
WordCount(t) == Cardinality({i \in 1..Len(t) : t[i] = " "}) + 1

\* the largest magnitude among the samples of buf, 0 for none
RECURSIVE Loudest(_)
Loudest(buf) ==
  IF buf = <<>> THEN 0 ELSE Max(Abs(Head(buf).val), Loudest(Tail(buf)))

\* a final pass made only on a buffer that holds a sound; C37 fails for it
WillFinalPass_gated(s) ==
  /\ s.audio_buffer # <<>>
  /\ s.transcription_started
  /\ Size(s.audio_buffer) >= MIN_FINAL_SAMPLES
  /\ Size(s.audio_buffer) >= TRANSCRIPTION_CHUNK_SIZE \div 2
  /\ Loudest(s.audio_buffer) > 0

\* a final pass that does not look at transcription_started; C10 fails for it
WillFinalPass_unstarted(s) ==
  /\ s.audio_buffer # <<>>
  /\ Size(s.audio_buffer) >= MIN_FINAL_SAMPLES
  /\ Size(s.audio_buffer) >= TRANSCRIPTION_CHUNK_SIZE \div 2

\* a final pass without the half-chunk test; C11 fails for it
WillFinalPass_short(s) ==
  /\ s.audio_buffer # <<>>
  /\ s.transcription_started
  /\ Size(s.audio_buffer) >= MIN_FINAL_SAMPLES

\* the two nested conditions under which finalizeTranscription calls the engine
WillFinalPass(s) ==
  /\ s.audio_buffer # <<>>
  /\ s.transcription_started
  /\ Size(s.audio_buffer) >= MIN_FINAL_SAMPLES
  /\ Size(s.audio_buffer) >= TRANSCRIPTION_CHUNK_SIZE \div 2

\* current_transcription += final_text
AppendFinal(s, final_text) ==
  [s EXCEPT !.current_transcription = @ \o final_text]

AppendFinalText(s, failed, final_text) ==
  AppendFinal(NoteCall(s, "final", Size(s.audio_buffer), failed, final_text, final_text),
              final_text)

\* the final pass of finalizeTranscription
FinalPass(s, e) ==
  IF WillFinalPass(s)
  THEN AppendFinalText(s, EngineFailed(e), Transcribed[s.variant][e])
  ELSE s

\* the report of finalizeTranscription: the cleaned text, the samples whose
\* duration is printed (recorded_samples / 16000) and the word count
Report(s) ==
  IF s.transcription_started
  THEN [s EXCEPT !.obs.reports =
          Append(@, [text |-> CleanText(s.current_transcription),
                     samples |-> s.recorded_samples,
                     rate |-> SAMPLE_RATE,
                     words |-> WordCount(CleanText(s.current_transcription))])]
  ELSE s

\* clears made only after a report; C29 fails for it
ClearCycle_reported(s, passed, reported) ==
  IF Len(reported.obs.reports) = Len(s.obs.reports)
  THEN [reported EXCEPT
          !.obs.finals = Append(@, [started |-> s.transcription_started,
                                    samples |-> Size(s.audio_buffer),
                                    peak |-> Loudest(s.audio_buffer),
                                    calls |-> 0, reports |-> 0])]
  ELSE [reported EXCEPT
          !.audio_buffer = <<>>,
          !.current_transcription = <<>>,
          !.transcription_started = FALSE,
          !.recorded_samples = 0,
          !.obs.finals = Append(@, [started |-> s.transcription_started,
                                    samples |-> Size(s.audio_buffer),
                                    peak |-> Loudest(s.audio_buffer),
                                    calls |-> Len(passed.obs.calls) - Len(s.obs.calls),
                                    reports |-> 1])]

\* the four clears that end finalizeTranscription; s is the session it was
\* called in, passed the one after the final pass, reported the one after the
\* report
ClearCycle(s, passed, reported) ==
  [reported EXCEPT
     !.audio_buffer = <<>>,
     !.current_transcription = <<>>,
     !.transcription_started = FALSE,
     !.recorded_samples = 0,
     !.obs.finals = Append(@, [started |-> s.transcription_started,
                               samples |-> Size(s.audio_buffer),
                               peak |-> Loudest(s.audio_buffer),
                               calls |-> Len(passed.obs.calls) - Len(s.obs.calls),
                               reports |-> Len(reported.obs.reports)
                                           - Len(s.obs.reports)])]

ReportAndClear(s, passed) == ClearCycle(s, passed, Report(passed))

finalizeTranscription(s, e) == ReportAndClear(s, FinalPass(s, e))

(***************************************************************************)
(* SessionStateMachine: one iteration of the loop of startStreaming        *)
(***************************************************************************)
\* nothing observed yet; left holds what a trigger found in the counters,
\* stopped the branch of the loop that ended the cycle
NoObs == [event |-> "none", vad |-> 0, left |-> <<>>, extractions |-> <<>>,
          attempts |-> <<>>, invoked |-> <<>>, calls |-> <<>>, reports |-> <<>>, finals |-> <<>>, stopped |-> "no"]

\* the bookkeeping at the start of a cycle; fed and cycles count over the run
NewCycle(fed, cycles) ==
  [fed |-> fed, cycles |-> cycles,
   captured |-> 0, consumed |-> 0, in_order |-> TRUE,
   first_overlap |-> -1, prev_overlap |-> -1, overlap_grew |-> FALSE,
   prev_sent_overlap |-> -1, sent_overlap_grew |-> FALSE,
   max_sent |-> 0, resent_outside_overlap |-> FALSE,
   fed_in_cycle |-> 0, silence_frames |-> 0]

\* no function has been called outside the loop
NoCall == [op |-> "none"]

\* the thread of the loop before its first read: at is where it is (in
\* audio_in->read, at a call site of the iteration, or in a recognition
\* call), in_flight the recognition calls running, waiting the frames at the
\* audio device not read yet, arrived those that came during the current
\* call, stalled the most frames a returning call has found waiting that
\* came during it, front the number of the first sample of the buffer,
\* starts the fronts at which the chunk calls of the cycle started
NoLoop ==
  [at |-> "read", site |-> 0, in_flight |-> 0, waiting |-> 0, arrived |-> 0,
   stalled |-> 0, reads |-> 0, front |-> 1, starts |-> <<>>, finalized |-> FALSE]

\* the session as a value
Session ==
  [variant |-> variant, is_listening |-> is_listening, audio_buffer |-> audio_buffer,
   silence_counter |-> silence_counter, speech_counter |-> speech_counter,
   current_transcription |-> current_transcription,
   transcription_started |-> transcription_started, chunk_count |-> chunk_count,
   recorded_samples |-> recorded_samples, obs |-> NoObs, hist |-> hist]

\* the fields of the object after an iteration that left it as s
Assign(s) ==
  /\ variant' = s.variant
  /\ is_listening' = s.is_listening
  /\ audio_buffer' = s.audio_buffer
  /\ silence_counter' = s.silence_counter
  /\ speech_counter' = s.speech_counter
  /\ current_transcription' = s.current_transcription
  /\ transcription_started' = s.transcription_started
  /\ chunk_count' = s.chunk_count
  /\ recorded_samples' = s.recorded_samples
  /\ obs' = s.obs
  /\ hist' = s.hist

Becomes(s) ==
  /\ Assign(s)
  /\ applied' = applied
  /\ loop' = loop

\* the frame read by audio_in->read(samples): n samples of one value
Frame(s, amp, n) ==
  <<[id |-> s.hist.captured + 1, n |-> n, val |-> amp,
     sent |-> 0, ov |-> FALSE]>>

\* a trigger that keeps the speech counter of the last cycle; C31 fails for it
IdleFrame_counting(s, detection_result) ==
  IF detection_result > 0
  THEN [s EXCEPT !.is_listening = TRUE,
                 !.audio_buffer = <<>>,
                 !.silence_counter = 0,
                 !.current_transcription = <<>>,
                 !.transcription_started = FALSE,
                 !.recorded_samples = 0,
                 !.chunk_count = 0,
                 !.obs.event = "trigger",
                 !.obs.invoked = Append(@, "RunDetection"),
                 !.obs.left = <<s.silence_counter, s.speech_counter, s.chunk_count>>,
                 !.hist = NewCycle(s.hist.fed, s.hist.cycles + 1)]
  ELSE [s EXCEPT !.obs.event = "idle", !.obs.invoked = Append(@, "RunDetection")]

\* a trigger frame that opens the buffer of the cycle; C30 fails for it
IdleFrame_buffered(s, detection_result) ==
  IF detection_result > 0
  THEN [s EXCEPT !.is_listening = TRUE,
                 !.audio_buffer = Frame([hist |-> [captured |-> 0]], 0, FrameSamples),
                 !.silence_counter = 0,
                 !.speech_counter = 0,
                 !.current_transcription = <<>>,
                 !.transcription_started = FALSE,
                 !.recorded_samples = FrameSamples,
                 !.chunk_count = 0,
                 !.obs.event = "trigger",
                 !.obs.invoked = Append(@, "RunDetection"),
                 !.obs.left = <<s.silence_counter, s.speech_counter, s.chunk_count>>,
                 !.hist = [NewCycle(s.hist.fed, s.hist.cycles + 1)
                             EXCEPT !.captured = FrameSamples]]
  ELSE [s EXCEPT !.obs.event = "idle", !.obs.invoked = Append(@, "RunDetection")]

\* a trigger that leaves chunk_count as the last cycle left it; C2 fails for it
IdleFrame_stale(s, detection_result) ==
  IF detection_result > 0
  THEN [s EXCEPT !.is_listening = TRUE,
                 !.audio_buffer = <<>>,
                 !.silence_counter = 0,
                 !.speech_counter = 0,
                 !.current_transcription = <<>>,
                 !.transcription_started = FALSE,
                 !.recorded_samples = 0,
                 !.obs.event = "trigger",
                 !.obs.invoked = Append(@, "RunDetection"),
                 !.obs.left = <<s.silence_counter, s.speech_counter, s.chunk_count>>,
                 !.hist = NewCycle(s.hist.fed, s.hist.cycles + 1)]
  ELSE [s EXCEPT !.obs.event = "idle", !.obs.invoked = Append(@, "RunDetection")]

\* if (!is_listening): the frame goes to the hotword detector
IdleFrame(s, detection_result) ==
  IF detection_result > 0
  THEN [s EXCEPT !.is_listening = TRUE,
                 !.audio_buffer = <<>>,
                 !.silence_counter = 0,
                 !.speech_counter = 0,
                 !.current_transcription = <<>>,
                 !.transcription_started = FALSE,
                 !.recorded_samples = 0,
                 !.chunk_count = 0,
                 !.obs.event = "trigger",
                 !.obs.invoked = Append(@, "RunDetection"),
                 !.obs.left = <<s.silence_counter, s.speech_counter, s.chunk_count>>,
                 !.hist = NewCycle(s.hist.fed, s.hist.cycles + 1)]
  ELSE [s EXCEPT !.obs.event = "idle", !.obs.invoked = Append(@, "RunDetection")]

\* a frame that is buffered and not counted; C17 fails for it
AppendFrame_uncounted(s, frame) ==
  [s EXCEPT !.audio_buffer = Join(@, frame),
            !.obs.event = "listen",
            !.hist.captured = @ + Size(frame),
            !.hist.fed = @ + 1,
            !.hist.fed_in_cycle = @ + 1]

\* audio_buffer.insert(end, samples); recorded_samples += samples.size()
AppendFrame(s, frame) ==
  [s EXCEPT !.audio_buffer = Join(@, frame),
            !.recorded_samples = @ + Size(frame),
            !.obs.event = "listen",
            !.hist.captured = @ + Size(frame),
            !.hist.fed = @ + 1,
            !.hist.fed_in_cycle = @ + 1]

\* an error result of RunVad counted as neither silence nor speech; C38 fails
\* for it
Classify_error(s, vad_result) ==
  IF vad_result = VAD_SILENCE
  THEN [s EXCEPT !.silence_counter = @ + 1, !.obs.vad = vad_result,
                 !.obs.invoked = Append(@, "RunVad"),
                 !.hist.silence_frames = @ + 1]
  ELSE IF vad_result = -1
  THEN [s EXCEPT !.obs.vad = vad_result, !.obs.invoked = Append(@, "RunVad")]
  ELSE [s EXCEPT !.silence_counter = 0, !.speech_counter = @ + 1,
                 !.obs.vad = vad_result, !.obs.invoked = Append(@, "RunVad")]

\* a speech frame that leaves the silence counter alone; C27 fails for it
Classify_unreset(s, vad_result) ==
  IF vad_result = VAD_SILENCE
  THEN [s EXCEPT !.silence_counter = @ + 1, !.obs.vad = vad_result,
                 !.obs.invoked = Append(@, "RunVad"),
                 !.hist.silence_frames = @ + 1]
  ELSE [s EXCEPT !.speech_counter = @ + 1, !.obs.vad = vad_result,
                 !.obs.invoked = Append(@, "RunVad")]

\* the counters after vad->RunVad
Classify(s, vad_result) ==
  IF vad_result = VAD_SILENCE
  THEN [s EXCEPT !.silence_counter = @ + 1, !.obs.vad = vad_result,
                 !.obs.invoked = Append(@, "RunVad"),
                 !.hist.silence_frames = @ + 1]
  ELSE [s EXCEPT !.silence_counter = 0, !.speech_counter = @ + 1,
                 !.obs.vad = vad_result, !.obs.invoked = Append(@, "RunVad")]

\* a speech branch that processes from the first speech frame; C18 fails for it
SpeechBranchProcesses_always(s, vad_result) == vad_result # VAD_SILENCE

\* if (speech_counter > MIN_SPEECH_LENGTH / 2048) in the speech branch
SpeechBranchProcesses(s, vad_result) ==
  /\ vad_result # VAD_SILENCE
  /\ s.speech_counter > MIN_SPEECH_LENGTH \div VAD_FRAME_SAMPLES

\* if (audio_buffer.size() >= TRANSCRIPTION_CHUNK_SIZE)
BufferFull(s) == Size(s.audio_buffer) >= TRANSCRIPTION_CHUNK_SIZE

\* a silence test with > in place of >=; C3 fails for it
SilenceStop_late(s) == s.silence_counter > SILENCE_THRESHOLD
\* if (silence_counter >= SILENCE_THRESHOLD)
SilenceStop(s) == s.silence_counter >= SILENCE_THRESHOLD

\* a cutoff that counts the samples read since the trigger; C35 fails for it
SafetyStop_captured(s) == s.hist.captured > SAMPLE_RATE * MAX_LISTEN_SECONDS
\* a loop without the cutoff; C4 fails for it
SafetyStop_never(s) == FALSE
\* if (audio_buffer.size() > 16000 * 60)
SafetyStop(s) == Size(s.audio_buffer) > SAMPLE_RATE * MAX_LISTEN_SECONDS

\* finalizeTranscription(); is_listening = false;
Finalize(s, e, branch) ==
  [finalizeTranscription(s, e) EXCEPT !.is_listening = FALSE, !.obs.stopped = branch]

\* the loop body while Listening, in the order of the code
Heard(s, vad_result, amp, n) ==
  Classify(AppendFrame(s, Frame(s, amp, n)), vad_result)
\* bookkeeping of a call of processAudioChunk from the loop
NoteAttempt(s, site) ==
  [s EXCEPT !.obs.attempts = Append(@, [site |-> site, held |-> Size(s.audio_buffer)])]

SpeechBranch(s, vad_result, e) ==
  IF SpeechBranchProcesses(s, vad_result)
  THEN processAudioChunk(NoteAttempt(s, "speech"), e)
  ELSE s
\* a buffer-full test that waits for the speech run; C28 fails for it
FullBranch_speech(s, e) ==
  IF BufferFull(s) /\ s.speech_counter > MIN_SPEECH_LENGTH \div VAD_FRAME_SAMPLES
  THEN processAudioChunk(NoteAttempt(s, "full"), e)
  ELSE s

FullBranch(s, e) ==
  IF BufferFull(s) THEN processAudioChunk(NoteAttempt(s, "full"), e) ELSE s
SilenceBranch(s, e) == IF SilenceStop(s) THEN Finalize(s, e, "silence") ELSE s
SafetyBranch(s, e) == IF SafetyStop(s) THEN Finalize(s, e, "safety") ELSE s

ListeningFrame(s, vad_result, amp, n, e1, e2, e3, e4) ==
  SafetyBranch(
    SilenceBranch(
      FullBranch(
        SpeechBranch(Heard(s, vad_result, amp, n), vad_result, e1), e2), e3), e4)

\* a recognition call is made by processAudioChunk in s
WillSend(s) ==
  /\ BufferFull(s)
  /\ hasSubstantialSpeech(Take(s.audio_buffer, TRANSCRIPTION_CHUNK_SIZE))

\* the answers explored for a call made in s; where the code makes no call the
\* answer is not looked at
Answers(s, called) ==
  IF called /\ Len(s.current_transcription) < MaxText THEN EngineOutputs(s.variant)
  ELSE {Nothing(s.variant)}

\* the frames explored in s: once the active part of the cycle is over, silence
Frames(s) ==
  IF s.hist.fed_in_cycle < MaxActive THEN VadResults \X Amplitudes \X {FrameSamples}
  ELSE {<<VAD_SILENCE, 0, FrameSamples>>}

\* the frames of uninterrupted loud speech
SpeechFrames == (VadResults \ {VAD_SILENCE}) \X {Loud} \X {FrameSamples}

\* a quiet frame of this many samples, appended to an empty buffer, leaves the
\* buffer at exactly 60 s once its first chunk has been skipped
BurstSamples(v) ==
  SAMPLE_RATE * MAX_LISTEN_SECONDS + TRANSCRIPTION_CHUNK_SIZE - SkippedOverlap(v)

\* the frames of a capture that stalls: ordinary frames, and the quiet backlog
\* of a minute delivered by one read
BurstFrames(s) ==
  ({VAD_SILENCE, 0} \X Amplitudes \X {FrameSamples})
    \cup ({VAD_SILENCE, 0} \X {0} \X {BurstSamples(s.variant), BurstSamples(s.variant) + 1})

(***************************************************************************)
(* Specification                                                           *)
(***************************************************************************)
Init ==
  /\ variant \in Variants
  /\ is_listening = FALSE
  /\ audio_buffer = <<>>
  /\ silence_counter = 0
  /\ speech_counter = 0
  /\ current_transcription = <<>>
  /\ transcription_started = FALSE
  /\ chunk_count = 0
  /\ recorded_samples = 0
  /\ obs = NoObs
  /\ hist = NewCycle(0, 0)
  /\ applied = NoCall
  /\ loop = NoLoop

\* one loop iteration while Idle
HotwordFrame ==
  /\ ~is_listening
  /\ \E detection_result \in DetectionResults :
       /\ detection_result > 0 => hist.cycles < MaxCycles
       /\ Becomes(IdleFrame(Session, detection_result))

\* one loop iteration while Listening, on a frame f = <<vad_result, value,
\* size>> of `frames`; s1 to s4 are the session after the append and the
\* classification, after the speech branch, after the buffer-full check and
\* after the silence check
Listening(frames, limit) ==
  /\ is_listening
  /\ hist.fed < limit
  /\ \E f \in frames :
     \E s1 \in {Heard(Session, f[1], f[2], f[3])} :
     \E e1 \in Answers(s1, SpeechBranchProcesses(s1, f[1]) /\ WillSend(s1)) :
     \E s2 \in {SpeechBranch(s1, f[1], e1)} :
     \E e2 \in Answers(s2, WillSend(s2)) :
     \E s3 \in {FullBranch(s2, e2)} :
     \E e3 \in Answers(s3, SilenceStop(s3) /\ WillFinalPass(s3)) :
     \E s4 \in {SilenceBranch(s3, e3)} :
     \E e4 \in Answers(s4, SafetyStop(s4) /\ WillFinalPass(s4)) :
       Becomes(SafetyBranch(s4, e4))

AudioFrame == Listening(Frames(Session), MaxFed)

Next == HotwordFrame \/ AudioFrame

Spec == Init /\ [][Next]_vars

\* a speaker who never pauses: cycles of speech frames only
SpeechFrame == Listening(SpeechFrames, MaxFedLong)

NextLong == HotwordFrame \/ SpeechFrame

SpecLong == Init /\ [][NextLong]_vars

\* a capture that can stall
BurstFrame == Listening(BurstFrames(Session), MaxFedBurst)

NextBurst == HotwordFrame \/ BurstFrame

SpecBurst == Init /\ [][NextBurst]_vars

(***************************************************************************)
(* hasSubstantialSpeech called on buffers of its own                       *)
(***************************************************************************)
\* the session stays as it is
SessionUnchanged ==
  UNCHANGED <<variant, is_listening, audio_buffer, silence_counter, speech_counter,
              current_transcription, transcription_started, chunk_count,
              recorded_samples, obs, hist, loop>>

\* n samples of value val, numbered from id
Run(id, n, val) ==
  IF n = 0 THEN <<>> ELSE <<[id |-> id, n |-> n, val |-> val, sent |-> 0, ov |-> FALSE]>>

\* the values of a short: the two ends of the range, and values at and next
\* to the two thresholds
PeakValues == {-32768, 32767, 1000, 250, 201}
FloorValues == {0, 50, 200, 201, -201, 250}

\* the buffers tried: at most one peak sample followed by up to MaxGateRun
\* samples of one value, and whole chunks of one value
GateInputs ==
  { Run(1, n1, v1) \o Run(n1 + 1, n2, v2) :
      n1 \in {0, 1}, v1 \in PeakValues, n2 \in 0..MaxGateRun, v2 \in FloorValues }
    \cup { Run(1, TRANSCRIPTION_CHUNK_SIZE, v) : v \in {0, 50, 200, 201, -201} }

\* one call, on one of the buffers
GateCall ==
  /\ applied = NoCall
  /\ \E audio_chunk \in GateInputs :
       applied' = [op |-> "hasSubstantialSpeech", arg |-> audio_chunk,
                   result |-> hasSubstantialSpeech(audio_chunk)]
  /\ SessionUnchanged

SpecGate == Init /\ [][GateCall]_vars

(***************************************************************************)
(* The hallucination filter on its own: one call on one segment text       *)
(***************************************************************************)
w_thanks_for_watching == <<"T", "h", "a", "n", "k", "s", " ", "f", "o", "r", " ", "w", "a", "t", "c", "h", "i", "n", "g">>
w_set_a_timer == <<"s", "e", "t", " ", "a", " ", "t", "i", "m", "e", "r", " ", "f", "o", "r", " ", "f", "i", "v", "e", " ", "m", "i", "n", "u", "t", "e", "s">>
w_thanks == <<"t", "h", "a", "n", "k", "s">>
w_subscribe == <<"s", "u", "b", "s", "c", "r", "i", "b", "e">>
w_thank_you == <<"T", "h", "a", "n", "k", " ", "y", "o", "u">>
w_thank_comma_you == <<"t", "h", "a", "n", "k", ",", " ", "y", "o", "u">>
w_thanks_a_lot == <<"t", "h", "a", "n", "k", "s", " ", "a", " ", "l", "o", "t">>
w_subtitles == <<"S", "u", "b", "t", "i", "t", "l", "e", "s", " ", "b", "y", " ", "t", "h", "e", " ", "c", "o", "m", "m", "u", "n", "i", "t", "y">>
w_web == <<"w", "w", "w", ".", "e", "x", "a", "m", "p", "l", "e", ".", "o", "r", "g">>
w_lights == <<"t", "u", "r", "n", " ", "o", "n", " ", "t", "h", "e", " ", "l", "i", "g", "h", "t", "s">>
w_hi == <<"h", "i">>
w_ypotitloi == <<"xCF", "x85", "xCF", "x80", "xCF", "x8C", "xCF", "x84", "xCE", "xB9", "xCF", "x84", "xCE", "xBB", "xCE", "xBF", "xCE", "xB9">>
w_Ypotitloi == <<"xCE", "xA5", "xCF", "x80", "xCF", "x8C", "xCF", "x84", "xCE", "xB9", "xCF", "x84", "xCE", "xBB", "xCE", "xBF", "xCE", "xB9">>

\* the texts a segment is built around
Words ==
  { w_thanks_for_watching, w_set_a_timer, w_thanks, w_subscribe, w_thank_you,
    w_thank_comma_you, w_thanks_a_lot, w_subtitles, w_web, w_lights, w_hi,
    w_ypotitloi, w_Ypotitloi }

\* what may stand before and after it: nothing, characters the filter strips,
\* other punctuation, and other words
Decorations ==
  { <<>>, <<"!">>, <<".", ".", ".">>, <<" ">>, <<"?", "!", " ", "\t">>, <<",", "\n">>,
    <<";">>, <<"-">>, <<"'">>, <<":", " ">>,
    <<"s", "o", " ">>, <<" ", "n", "o", "w">> }

\* the text with its letters a..z in upper case
Shout(t) ==
  [i \in 1..Len(t) |->
     IF \E k \in 1..26 : LowerCase[k] = t[i]
     THEN UpperCase[CHOOSE k \in 1..26 : LowerCase[k] = t[i]]
     ELSE t[i]]

\* one call of the filter of the variant, on one text
FilterCall ==
  /\ applied = NoCall
  /\ \E pre \in Decorations, w \in Words, post \in Decorations, shout \in BOOLEAN :
     \E word \in {IF shout THEN Shout(w) ELSE w} :
     \E text \in {pre \o word \o post} :
       applied' = [op |-> "isHallucination", arg |-> text,
                   pre |-> pre, word |-> word, post |-> post,
                   contains |-> ContainsHallucination(variant, ToLower(text)),
                   standalone |-> IsStandalone(ToLower(text)),
                   result |-> isHallucination(variant, text)]
  /\ SessionUnchanged

SpecFilter == Init /\ [][FilterCall]_vars

(***************************************************************************)
(* The transcript on its own: the texts of the chunk calls and of the     *)
(* final pass of a cycle, up to MaxAssembled segments in all, appended and *)
(* reported as processAudioChunk and finalizeTranscription do              *)
(***************************************************************************)
\* segment texts as the engine gives them
r_turn == <<" ", "t", "u", "r", "n">>
r_on == <<"o", "n">>
r_the == <<"t", "h", "e", " ", " ">>
r_lights == <<"\t", "l", "i", "g", "h", "t", "s", "\n">>
r_so_far == <<"s", "o", " ", " ", "f", "a", "r">>
r_blank == <<" ", " ">>
r_watching == <<" ", "T", "h", "a", "n", "k", "s", " ", "f", "o", "r", " ", "w", "a", "t", "c", "h", "i", "n", "g", "!">>
RawSegments == {r_turn, r_on, r_the, r_lights, r_so_far, r_blank, r_watching}

\* the segments of one call: none, one or two
RawAnswers ==
  {<<>>} \cup {<<a>> : a \in RawSegments} \cup {<<a, b>> : a \in RawSegments, b \in RawSegments}

\* the engine answer that carries these segments
AnswerOf(v, segs) ==
  IF v = "capi" THEN [rc |-> 0, segs |-> segs]
  ELSE [pipe |-> TRUE, spawn |-> TRUE, err |-> <<>>,
        lines |-> [i \in 1..Len(segs) |-> Stamp \o segs[i]], exit_code |-> 0]

\* transcribeWithWhisper on each of them, computed once
AssembledText ==
  [v \in Variants |-> [segs \in RawAnswers |-> transcribeWithWhisper(v, AnswerOf(v, segs))]]

AssembledAccepted ==
  [v \in Variants |->
     [segs \in RawAnswers |-> ChunkTextAccepted(v, AssembledText[v][segs])]]

\* the texts an answer adds to the result of the call: the segments that are
\* not blank and pass the filter, trimmed; for a blank segment the cli
\* variant adds the time stamp of its line, which handle_line takes for a
\* line without a stamp
RECURSIVE KeptSegments(_, _)
KeptSegments(v, segs) ==
  IF segs = <<>> THEN <<>>
  ELSE (IF Trim(Head(segs), Whitespace) = <<>>
        THEN (IF v = "cli" THEN <<Trim(Stamp, Whitespace)>> ELSE <<>>)
        ELSE IF isHallucination(v, Trim(Head(segs), Whitespace)) THEN <<>>
        ELSE <<Trim(Head(segs), Whitespace)>>)
       \o KeptSegments(v, Tail(segs))
Kept == [v \in Variants |-> [segs \in RawAnswers |-> KeptSegments(v, segs)]]

\* the segments given to the cycle so far, these included
Given(segs) ==
  (IF applied.op = "none" THEN 0 ELSE applied.given) + Max(1, Len(segs))

AssembleUnchanged ==
  UNCHANGED <<variant, is_listening, audio_buffer, silence_counter, speech_counter,
              chunk_count, recorded_samples, obs, hist, loop>>

\* the text part of processAudioChunk for one answer
AssembleChunk ==
  /\ applied.op \in {"none", "assembling"}
  /\ \E segs \in {a \in RawAnswers : Given(a) <= MaxAssembled} :
     \E text \in {AssembledText[variant][segs]} :
     \E s \in {AppendTranscribed(Session, text, AssembledAccepted[variant][segs])} :
       /\ current_transcription' = s.current_transcription
       /\ transcription_started' = s.transcription_started
       /\ applied' =
            [op |-> "assembling",
             calls |-> IF applied.op = "none" THEN 1 ELSE applied.calls + 1,
             given |-> Given(segs),
             segments |-> (IF applied.op = "none" THEN <<>> ELSE applied.segments)
                          \o (IF AssembledAccepted[variant][segs]
                              THEN Kept[variant][segs] ELSE <<>>)]
  /\ AssembleUnchanged

\* the text part of finalizeTranscription: with a final pass when final is
\* TRUE and the transcript has started, then the report and the clears
AssembleFinalize ==
  /\ applied.op = "assembling"
  /\ \E final \in BOOLEAN :
     \E segs \in IF final THEN {a \in RawAnswers : Given(a) <= MaxAssembled} ELSE {<<>>} :
     \E pass \in {final /\ transcription_started} :
     \E passed \in {IF pass THEN AppendFinal(Session, AssembledText[variant][segs])
                    ELSE Session} :
     \E s \in {ReportAndClear(Session, passed)} :
       /\ current_transcription' = s.current_transcription
       /\ transcription_started' = s.transcription_started
       /\ applied' =
            [op |-> "finalized",
             calls |-> applied.calls,
             given |-> IF final THEN Given(segs) ELSE applied.given,
             segments |-> applied.segments \o (IF pass THEN Kept[variant][segs] ELSE <<>>),
             reported |-> s.obs.reports # <<>>,
             result |-> IF s.obs.reports = <<>> THEN <<>> ELSE s.obs.reports[1].text,
             words |-> IF s.obs.reports = <<>> THEN 0 ELSE s.obs.reports[1].words]
  /\ AssembleUnchanged

SpecAssemble == Init /\ [][AssembleChunk \/ AssembleFinalize]_vars

(***************************************************************************)
(* The thread of the loop, call by call: a cycle from the trigger on.      *)
(* Which of its call sites an iteration takes depends on the audio and is  *)
(* left open here; the frames arrive at the audio device whatever the      *)
(* thread is doing                                                         *)
(***************************************************************************)
\* the places of an iteration that reach transcribeWithWhisper, in order:
\* processAudioChunk in the speech branch and after the buffer-full test,
\* finalizeTranscription after the silence test and after the cutoff test
CallSites == <<"speech", "full", "silence", "safety">>

LoopUnchanged ==
  UNCHANGED <<variant, is_listening, audio_buffer, silence_counter, speech_counter,
              current_transcription, transcription_started, recorded_samples,
              obs, hist, applied>>

\* the thread after call site k: the next site, or audio_in->read again
After(l, k) ==
  IF k = Len(CallSites) THEN [l EXCEPT !.at = "read", !.site = 0]
  ELSE [l EXCEPT !.at = "site", !.site = k + 1]

\* a recognition call started without waiting for the one that is running;
\* C19 fails for it
CallMayStart_detached(l) == l.at \in {"site", "call"}

\* transcribeWithWhisper is called from the thread itself, which is in the
\* call until it returns
CallMayStart(l) == l.at = "site"

\* the audio device has another frame
LoopArrive ==
  /\ loop.waiting < MaxWaiting
  /\ loop' = [loop EXCEPT !.waiting = @ + 1,
                          !.arrived = IF loop.at = "call" THEN @ + 1 ELSE @]
  /\ chunk_count' = chunk_count
  /\ LoopUnchanged

\* audio_in->read(samples) returns the oldest frame waiting
LoopRead ==
  /\ loop.at = "read"
  /\ loop.waiting > 0
  /\ loop.reads < MaxReads
  /\ loop' = [loop EXCEPT !.waiting = @ - 1, !.reads = @ + 1, !.at = "site", !.site = 1]
  /\ chunk_count' = chunk_count
  /\ LoopUnchanged

\* the condition of the site is false, or finalizeTranscription makes no
\* final pass
LoopPass ==
  /\ loop.at = "site"
  /\ loop' = After(loop, loop.site)
  /\ chunk_count' = chunk_count
  /\ LoopUnchanged

\* processAudioChunk finds the chunk without speech and erases it
LoopSkipChunk ==
  /\ loop.at = "site"
  /\ loop.site <= 2
  /\ ~loop.finalized
  /\ loop' = After([loop EXCEPT !.front = @ + TRANSCRIPTION_CHUNK_SIZE - SkippedOverlap(variant)],
                   loop.site)
  /\ chunk_count' = chunk_count
  /\ LoopUnchanged

\* transcribeWithWhisper is entered, on the chunk at the front of the buffer
\* or, from finalizeTranscription, on the whole buffer
LoopCallStart ==
  /\ CallMayStart(loop)
  /\ ~loop.finalized
  /\ loop' = [loop EXCEPT !.at = "call",
                          !.in_flight = @ + 1,
                          !.arrived = 0,
                          !.starts = IF loop.site <= 2 THEN Append(@, loop.front) ELSE @]
  /\ chunk_count' = chunk_count
  /\ LoopUnchanged

\* transcribeWithWhisper returns: after a chunk, chunk_count++ and the erase;
\* after a final pass, the cycle is over
LoopCallReturn ==
  /\ loop.at = "call"
  /\ \E overlap \in {IF chunk_count + 1 = 1 THEN FirstOverlap(variant)
                     ELSE SubsequentOverlap(variant)} :
       loop' = After([loop EXCEPT
                        !.in_flight = @ - 1,
                        !.stalled = Max(@, IF loop.arrived <= loop.waiting
                                           THEN loop.arrived ELSE loop.waiting),
                        !.front = IF loop.site <= 2
                                  THEN @ + TRANSCRIPTION_CHUNK_SIZE - overlap ELSE @,
                        !.finalized = loop.site > 2],
                     loop.site)
  /\ chunk_count' = IF loop.site <= 2 THEN chunk_count + 1 ELSE chunk_count
  /\ LoopUnchanged

NextLoop ==
  \/ LoopArrive
  \/ LoopRead
  \/ LoopPass
  \/ LoopSkipChunk
  \/ LoopCallStart
  \/ LoopCallReturn

SpecLoop == Init /\ [][NextLoop]_vars

(***************************************************************************)
(* Start-up: main, the constructor, and the loop once it has been entered  *)
(***************************************************************************)
\* what the constructor finds: model is whether ggml-large-v3.bin exists in
\* one of the two places, engine whether whisper_init_from_file_with_params
\* returns a context (capi) or a whisper-cli.exe exists in one of the six
\* places (cli), probe how the trial run of whisper-cli --help ends (cli),
\* devices whether the audio stream, the detector and the classifier are
\* constructed or one of them throws
Probes == {"ok", "not_started", "dll_error"}
StartEnvs(v) ==
  [model : BOOLEAN, engine : BOOLEAN, devices : {"ok", "throws"},
   probe : IF v = "cli" THEN Probes ELSE {"ok"}]

\* the constructor of the C-API variant: the exception it leaves by, or "none"
Construct_capi(env) ==
  IF ~env.model THEN "model_not_found"
  ELSE IF ~env.engine THEN "engine_not_initialized"
  ELSE IF env.devices = "throws" THEN "device_exception"
  ELSE "none"

\* the constructor of the cli variant; the trial run changes the executable
\* chosen or nothing, and throws in no case
Construct_cli(env) ==
  IF ~env.engine THEN "executable_not_found"
  ELSE IF ~env.model THEN "model_not_found"
  ELSE IF env.devices = "throws" THEN "device_exception"
  ELSE "none"

Construct(v, env) == IF v = "capi" THEN Construct_capi(env) ELSE Construct_cli(env)

\* a handler that reports the error and returns 0; C21 fails for it
main_zero(v, help, env) ==
  IF v = "capi" /\ help
  THEN [thrown |-> "none", reported |-> FALSE, entered |-> FALSE, returned |-> 0]
  ELSE IF Construct(v, env) # "none"
  THEN [thrown |-> Construct(v, env), reported |-> TRUE, entered |-> FALSE, returned |-> 0]
  ELSE [thrown |-> "none", reported |-> FALSE, entered |-> TRUE, returned |-> 0]

\* main: --help (capi only) prints the usage and returns 0; an exception of
\* the constructor is caught, printed to std::cerr, and main returns -1;
\* otherwise startStreaming is entered, which does not return
main(v, help, env) ==
  IF v = "capi" /\ help
  THEN [thrown |-> "none", reported |-> FALSE, entered |-> FALSE, returned |-> 0]
  ELSE IF Construct(v, env) # "none"
  THEN [thrown |-> Construct(v, env), reported |-> TRUE, entered |-> FALSE, returned |-> -1]
  ELSE [thrown |-> "none", reported |-> FALSE, entered |-> TRUE, returned |-> 0]

\* the process is started; --help is an option of the capi variant only
StartMain ==
  /\ applied = NoCall
  /\ \E help \in (IF variant = "capi" THEN BOOLEAN ELSE {FALSE}), env \in StartEnvs(variant) :
       applied' = [op |-> "main", help |-> help, env |-> env,
                   result |-> main(variant, help, env)]
  /\ UNCHANGED <<variant, is_listening, audio_buffer, silence_counter, speech_counter,
                 current_transcription, transcription_started, chunk_count,
                 recorded_samples, obs, hist, loop>>

\* startStreaming has been entered: the loop reads its frames
StartedFrame ==
  /\ applied.op = "main"
  /\ applied.result.entered
  /\ \/ HotwordFrame
     \/ AudioFrame

SpecStart == Init /\ [][StartMain \/ StartedFrame]_vars

(***************************************************************************)
(* Reads of several sizes                                                  *)
(***************************************************************************)
\* frames fed over a run whose reads differ in size
MaxFedSized == 3

\* the largest read after which one extraction brings the buffer below a
\* chunk again, whatever overlap it keeps
LargestFrame(v) == TRANSCRIPTION_CHUNK_SIZE - SkippedOverlap(v)

\* reads of the usual size and of the largest size
SizedFrames(s) ==
  VadResults \X Amplitudes \X {FrameSamples, LargestFrame(s.variant)}

SizedFrame == Listening(SizedFrames(Session), MaxFedSized)

SpecSized == Init /\ [][HotwordFrame \/ SizedFrame]_vars

\* reads of either size in a speech run long enough for the speech branch to
\* call processAudioChunk: every frame is classified as speech
MaxFedSpoken == 4

SpokenFrame ==
  Listening((VadResults \ {VAD_SILENCE}) \X Amplitudes
              \X {FrameSamples, LargestFrame(variant)}, MaxFedSpoken)

SpecSpoken == Init /\ [][HotwordFrame \/ SpokenFrame]_vars

(***************************************************************************)
(* A backlog read as the thirtieth silence frame                           *)
(***************************************************************************)
\* the frames of Frames, and, when one more silence frame ends the cycle, the
\* backlog of a stalled capture classified silence: the silence test and the
\* cutoff test both meet their condition in that iteration
BothFrames(s) ==
  Frames(s) \cup
    (IF s.silence_counter = SILENCE_THRESHOLD - 1
     THEN {<<VAD_SILENCE, 0, BurstSamples(s.variant) + 1>>}
     ELSE {})

BothFrame == Listening(BothFrames(Session), MaxFed)

SpecBoth == Init /\ [][HotwordFrame \/ BothFrame]_vars

(***************************************************************************)
(* Two sessions fed the same cycle                                         *)
(*                                                                         *)
(* Beside the session, `applied` holds a second one that is constructed    *)
(* anew at every trigger and then given the same frames, classifications   *)
(* and recognition answers as the session; stale tells that the trigger    *)
(* found all three counters above 0, ended how the cycle before it ended.  *)
(***************************************************************************)
\* frames fed to the two sessions in a cycle that is not the first
MaxFedAgain == 3

\* the member initialisers: the object as the constructor leaves it
Constructed(s) ==
  [s EXCEPT !.is_listening = FALSE, !.audio_buffer = <<>>,
            !.silence_counter = 0, !.speech_counter = 0,
            !.current_transcription = <<>>, !.transcription_started = FALSE,
            !.chunk_count = 0, !.recorded_samples = 0]

\* the frames of a cycle: those of Frames, and as the first frame of the
\* first cycle the backlog of a stalled capture, which ends it by the cutoff
TwinFrames(s) ==
  Frames(s) \cup
    (IF s.hist.cycles = 1 /\ s.hist.fed_in_cycle = 0
     THEN {<<VAD_SILENCE, 0, BurstSamples(s.variant) + 1>>}
     ELSE {})

\* one loop iteration while Idle; at the trigger the second session starts
TwinHotword ==
  /\ ~is_listening
  /\ \E detection_result \in DetectionResults :
       /\ detection_result > 0 => hist.cycles < MaxCycles
       /\ Assign(IdleFrame(Session, detection_result))
       /\ applied' = IF detection_result > 0
                     THEN [op |-> "twin",
                           stale |-> silence_counter > 0 /\ speech_counter > 0
                                       /\ chunk_count > 0,
                           ended |-> obs.stopped,
                           s |-> IdleFrame(Constructed(Session), detection_result)]
                     ELSE IF applied.op = "twin"
                     THEN [applied EXCEPT
                             !.s = IdleFrame([@ EXCEPT !.obs = NoObs], detection_result)]
                     ELSE applied
       /\ loop' = loop

\* one loop iteration while Listening, made by both sessions
TwinAudio ==
  /\ is_listening
  /\ hist.fed < MaxFed
  /\ hist.cycles > 1 => hist.fed_in_cycle < MaxFedAgain
  /\ applied.op = "twin"
  /\ \E f \in TwinFrames(Session) :
     \E s1 \in {Heard(Session, f[1], f[2], f[3])} :
     \E e1 \in Answers(s1, SpeechBranchProcesses(s1, f[1]) /\ WillSend(s1)) :
     \E s2 \in {SpeechBranch(s1, f[1], e1)} :
     \E e2 \in Answers(s2, WillSend(s2)) :
     \E s3 \in {FullBranch(s2, e2)} :
     \E e3 \in Answers(s3, SilenceStop(s3) /\ WillFinalPass(s3)) :
     \E s4 \in {SilenceBranch(s3, e3)} :
     \E e4 \in Answers(s4, SafetyStop(s4) /\ WillFinalPass(s4)) :
       /\ Assign(SafetyBranch(s4, e4))
       /\ applied' = [applied EXCEPT
                        !.s = ListeningFrame([@ EXCEPT !.obs = NoObs],
                                             f[1], f[2], f[3], e1, e2, e3, e4)]
       /\ loop' = loop

SpecTwin == Init /\ [][TwinHotword \/ TwinAudio]_vars

(***************************************************************************)
(* Properties                                                              *)
(***************************************************************************)
Cutoff == SAMPLE_RATE * MAX_LISTEN_SECONDS

FinalsOf == {obs.finals[i] : i \in 1..Len(obs.finals)}
CallsOf == {obs.calls[i] : i \in 1..Len(obs.calls)}
ExtractionsOf == {obs.extractions[i] : i \in 1..Len(obs.extractions)}

\* C1: a cycle in which no frame was classified silence is no longer Listening
\* once more than 60 s of samples (60 * 16000) have been fed since the
\* trigger: the safety cutoff has finalized it and returned to Idle.
C1_CutoffEndsSpeech ==
  (is_listening /\ hist.silence_frames = 0) => recorded_samples <= Cutoff

\* C2: the iteration that takes the trigger leaves Listening with every
\* per-cycle field reset (buffer empty, both counters 0, chunk count 0,
\* transcript empty, started false, recorded samples 0), whatever the last
\* cycle left; an iteration spent Idle extracts nothing, calls no recognition
\* and reports nothing.
C2_TriggerResets ==
  /\ obs.event = "trigger" =>
        /\ is_listening
        /\ audio_buffer = <<>>
        /\ silence_counter = 0
        /\ speech_counter = 0
        /\ chunk_count = 0
        /\ current_transcription = <<>>
        /\ ~transcription_started
        /\ recorded_samples = 0
  /\ obs.event \in {"idle", "trigger"} =>
        /\ obs.extractions = <<>>
        /\ obs.calls = <<>>
        /\ obs.reports = <<>>
        /\ obs.finals = <<>>

\* C2: a trigger that finds the counters of a finished cycle: silence counter
\* at the threshold, speech counter and chunk count above 0
C2_TriggerAfterCycle ==
  /\ obs.event = "trigger"
  /\ obs.left = <<SILENCE_THRESHOLD, obs.left[2], obs.left[3]>>
  /\ obs.left[2] > 0
  /\ obs.left[3] > 0

\* C3: while Listening the silence counter is below the threshold; a Listening
\* iteration ends with the counter at the threshold exactly when its silence
\* branch finalized the cycle, and that iteration finalizes once, with the
\* counter at 30 and not above, and leaves Idle.
C3_SilenceStop ==
  /\ is_listening => silence_counter < SILENCE_THRESHOLD
  /\ obs.event = "listen" =>
        (silence_counter >= SILENCE_THRESHOLD <=> obs.stopped = "silence")
  /\ obs.stopped = "silence" =>
        /\ ~is_listening
        /\ Len(obs.finals) = 1
        /\ silence_counter = SILENCE_THRESHOLD

\* C3: the thirtieth silence frame in a row has ended a cycle
C3_StoppedBySilence ==
  /\ obs.stopped = "silence"
  /\ obs.vad = VAD_SILENCE
  /\ ~is_listening

C5_SamplesOnceInOrder ==
  is_listening =>
    /\ hist.in_order
    /\ Contiguous(audio_buffer, hist.consumed + 1)
    /\ hist.consumed + Size(audio_buffer) = hist.captured

\* C5: a cycle that has skipped a chunk and sent a chunk and still holds samples
C5_AfterSkipAndSend ==
  /\ is_listening
  /\ audio_buffer # <<>>
  /\ chunk_count > 0
  /\ hist.consumed > TRANSCRIPTION_CHUNK_SIZE
  /\ \E x \in ExtractionsOf : ~x.gate

C8_FailureAppendsNothing ==
  \A c \in CallsOf : (c.kind = "chunk" /\ c.failed) => c.appended = <<>>

\* C9: a text appended to the transcript, by a chunk or by the final pass, is
\* not one the hallucination filter rejects.
C9_AppendedPassesFilter ==
  \A c \in CallsOf : c.appended # <<>> => ~isHallucination(variant, c.text)

\* C10: a finalization that finds started false and the buffer not empty
\* makes no recognition call and no report, and leaves the buffer empty, the
\* transcript empty, started false and recorded samples 0.
C10_UnstartedFinalizeIsSilent ==
  \A f \in FinalsOf :
    (~f.started /\ f.samples > 0) =>
      /\ f.calls = 0
      /\ f.reports = 0
      /\ audio_buffer = <<>>
      /\ current_transcription = <<>>
      /\ ~transcription_started
      /\ recorded_samples = 0

\* C10: a cycle ends unstarted with a buffer long enough for a final pass
C10_UnstartedFinalizeLongBuffer ==
  \E f \in FinalsOf :
    /\ ~f.started
    /\ f.samples >= TRANSCRIPTION_CHUNK_SIZE \div 2
    /\ f.samples >= MIN_FINAL_SAMPLES

AllZero(buf) == \A i \in 1..Len(buf) : buf[i].val = 0

\* C12: hasSubstantialSpeech rejects the empty buffer and every buffer whose
\* samples are all zero, whatever its length.
C12_GateRejectsSilence ==
  (applied.op = "hasSubstantialSpeech" /\ AllZero(applied.arg)) => ~applied.result

\* C12: the gate was called on a whole chunk of zeros
C12_GateOnZeroChunk ==
  /\ applied.op = "hasSubstantialSpeech"
  /\ AllZero(applied.arg)
  /\ Size(applied.arg) = TRANSCRIPTION_CHUNK_SIZE
  /\ ~applied.result

\* the sum of the squares and the number of samples above 200 or below -200,
\* run by run
RECURSIVE Energy(_)
Energy(buf) ==
  IF buf = <<>> THEN 0
  ELSE Head(buf).n * (Head(buf).val * Head(buf).val) + Energy(Tail(buf))
RECURSIVE Active(_)
Active(buf) ==
  IF buf = <<>> THEN 0
  ELSE (IF Head(buf).val > 200 \/ Head(buf).val < -200 THEN Head(buf).n ELSE 0)
       + Active(Tail(buf))

\* C13: hasSubstantialSpeech accepts a non-empty buffer of n samples exactly
\* when the sum of squares is at least 2500 * n (RMS >= 50) and at least
\* n / 200 of the samples are above 200 or below -200 (ratio >= 0.005), the
\* sample -32768 counting like any other.
C13_GateAcceptsIffBothThresholds ==
  (applied.op = "hasSubstantialSpeech" /\ applied.arg # <<>>) =>
    (applied.result <=>
       /\ Energy(applied.arg) >= 2500 * Size(applied.arg)
       /\ 200 * Active(applied.arg) >= Size(applied.arg))

\* C13: a buffer whose only active sample is -32768, exactly one sample in
\* 200, is accepted
C13_GateOnLowestSample ==
  /\ applied.op = "hasSubstantialSpeech"
  /\ applied.result
  /\ Len(applied.arg) = 2
  /\ applied.arg[1].val = -32768
  /\ applied.arg[2].val = 0
  /\ Size(applied.arg) = 200

\* the capital letters of the first phrase of the list, in UTF-8, each with
\* its small letter: lead byte, trail byte, lead byte, trail byte
GreekCapitals ==
  { <<"xCE", "xA5", "xCF", "x85">>, <<"xCE", "xA0", "xCF", "x80">>,
    <<"xCE", "x8C", "xCF", "x8C">>, <<"xCE", "xA4", "xCF", "x84">>,
    <<"xCE", "x99", "xCE", "xB9">>, <<"xCE", "x9B", "xCE", "xBB">>,
    <<"xCE", "x9F", "xCE", "xBF">> }

\* the text with every capital letter, A..Z and the Greek ones, made small
FoldCase(t) ==
  [i \in 1..Len(t) |->
     IF i < Len(t) /\ \E g \in GreekCapitals : g[1] = t[i] /\ g[2] = t[i + 1]
     THEN (CHOOSE g \in GreekCapitals : g[1] = t[i] /\ g[2] = t[i + 1])[3]
     ELSE IF i > 1 /\ \E g \in GreekCapitals : g[1] = t[i - 1] /\ g[2] = t[i]
     THEN (CHOOSE g \in GreekCapitals : g[1] = t[i - 1] /\ g[2] = t[i])[4]
     ELSE IF \E k \in 1..26 : UpperCase[k] = t[i]
     THEN LowerCase[CHOOSE k \in 1..26 : UpperCase[k] = t[i]]
     ELSE t[i]]

\* C14: the filter rejects a segment exactly when the segment, compared
\* without regard to case, contains a phrase of the artifact list, or the
\* standalone check matches; every other segment is accepted.
C14_RejectsPhraseInAnyCase ==
  applied.op = "isHallucination" =>
    (applied.result <=>
       \/ \E i \in 1..Len(hallucinations(variant)) :
            Contains(FoldCase(applied.arg), hallucinations(variant)[i])
       \/ applied.standalone)

\* punctuation characters of ASCII, and the white space
AllPunctuation ==
  { "!", "#", "$", "%", "&", "'", "+", ",", "-", ".", "/", ":", ";",
    "<", "=", ">", "?", "@", "[", "]", "^", "_", "{", "|", "}", "~",
    " ", "\t", "\n", "\r" }

\* the eight characters . , ! ? space tab newline carriage-return
CommonPunctuation == {".", ",", "!", "?", " ", "\t", "\n", "\r"}

\* the text without the characters of the set
RECURSIVE Without(_, _)
Without(t, set) ==
  IF t = <<>> THEN <<>>
  ELSE (IF Head(t) \in set THEN <<>> ELSE <<Head(t)>>) \o Without(Tail(t), set)

StandaloneTokens == { standalone_hallucinations[i] : i \in 1..Len(standalone_hallucinations) }

\* C15 as stated: the standalone check matches, and the filter rejects,
\* exactly the segments that in lower case and without any punctuation
\* character and white space are a standalone token.
C15_StandaloneAnyPunctuation ==
  applied.op = "isHallucination" =>
    /\ applied.standalone <=> Without(ToLower(applied.arg), AllPunctuation) \in StandaloneTokens
    /\ applied.standalone => applied.result

\* C15: the standalone check matches, and the filter rejects, exactly the
\* segments that in lower case and without the characters . , ! ? space tab
\* newline and carriage return are a standalone token; a token among other
\* words or beside any other punctuation character is not matched by it.
C15_StandaloneCommonPunctuation ==
  applied.op = "isHallucination" =>
    /\ applied.standalone <=> Without(ToLower(applied.arg), CommonPunctuation) \in StandaloneTokens
    /\ applied.standalone => applied.result

\* C15: a token in capitals between stripped characters is rejected by the
\* standalone check alone
C15_TokenBetweenPunctuation ==
  /\ applied.op = "isHallucination"
  /\ applied.word = Shout(w_thanks)
  /\ applied.pre = <<".", ".", ".">>
  /\ applied.post = <<"?", "!", " ", "\t">>
  /\ applied.standalone
  /\ ~applied.contains
  /\ applied.result

\* the words of a text: its maximal runs of characters other than the space
RECURSIVE SpaceWords(_, _)
SpaceWords(t, word) ==
  IF t = <<>> THEN (IF word = <<>> THEN <<>> ELSE <<word>>)
  ELSE IF Head(t) = " "
  THEN (IF word = <<>> THEN <<>> ELSE <<word>>) \o SpaceWords(Tail(t), <<>>)
  ELSE SpaceWords(Tail(t), Append(word, Head(t)))

\* the words of the texts of a sequence, in order
RECURSIVE WordsOf(_)
WordsOf(texts) ==
  IF texts = <<>> THEN <<>>
  ELSE SpaceWords(Head(texts), <<>>) \o WordsOf(Tail(texts))

\* the words with one space between each two
RECURSIVE OneSpaced(_)
OneSpaced(ws) ==
  IF ws = <<>> THEN <<>>
  ELSE IF Len(ws) = 1 THEN ws[1]
  ELSE ws[1] \o <<" ">> \o OneSpaced(Tail(ws))

\* C16: after segments have been accepted, the transcript reported at
\* finalization is the accepted segments in order with exactly one space
\* between each two, without a space at either end and without two spaces
\* in a row, whatever runs of spaces the segments held.
C16_TranscriptSingleSpaced ==
  (applied.op = "finalized" /\ applied.segments # <<>>) =>
    /\ applied.reported
    /\ applied.result = OneSpaced(WordsOf(applied.segments))
    /\ applied.result # <<>>
    /\ applied.result[1] # " "
    /\ applied.result[Len(applied.result)] # " "
    /\ \A i \in 1..(Len(applied.result) - 1) :
         ~(applied.result[i] = " " /\ applied.result[i + 1] = " ")

\* C16: turn, on, the, lights accepted over two chunk calls and a final pass,
\* the third of them with two spaces after it
C16_TurnOnTheLights ==
  /\ applied.op = "finalized"
  /\ applied.calls = 2
  /\ Len(applied.segments) = 4
  /\ applied.result = <<"t", "u", "r", "n", " ", "o", "n", " ", "t", "h", "e", " ",
                        "l", "i", "g", "h", "t", "s">>

ReportsOf == {obs.reports[i] : i \in 1..Len(obs.reports)}

\* the number of spaces of a text
RECURSIVE Spaces(_)
Spaces(t) ==
  IF t = <<>> THEN 0 ELSE (IF Head(t) = " " THEN 1 ELSE 0) + Spaces(Tail(t))

\* C17: while Listening the recorded-sample counter is the number of samples
\* of the frames fed since the trigger; a report gives that number over the
\* rate 16000 as the duration and the number of spaces of the reported
\* transcript plus one as the word count.
C17_ReportCountsSamplesAndWords ==
  /\ is_listening => recorded_samples = hist.captured
  /\ \A r \in ReportsOf :
       /\ r.samples = hist.captured
       /\ r.rate = 16000
       /\ r.words = Spaces(r.text) + 1

\* C17: a report of two words after chunks have left the buffer
C17_ReportOfTwoWords ==
  \E r \in ReportsOf :
    /\ r.words = 2
    /\ r.samples > 2 * TRANSCRIPTION_CHUNK_SIZE
    /\ hist.consumed > 0

\* C18 as stated: a chunk is extracted in a cycle only after the speech
\* counter has exceeded MIN_SPEECH_LENGTH / 2048 = 3.
C18_NoExtractionBeforeSpeechRun ==
  (obs.event = "listen" /\ obs.extractions # <<>>) =>
    speech_counter > MIN_SPEECH_LENGTH \div VAD_FRAME_SAMPLES

\* C18: in an iteration whose frame is silence, or whose speech counter has
\* not exceeded 3, the speech branch extracts nothing: at most one chunk is
\* extracted, by the buffer-full test, from a buffer at least a chunk long.
C18_OnlyBufferFullBeforeSpeechRun ==
  (/\ obs.event = "listen"
   /\ \/ obs.vad = VAD_SILENCE
      \/ speech_counter <= MIN_SPEECH_LENGTH \div VAD_FRAME_SAMPLES) =>
    /\ Len(obs.extractions) <= 1
    /\ \A x \in ExtractionsOf : x.removed + x.overlap = TRANSCRIPTION_CHUNK_SIZE

\* C18: a speech frame with the counter at 3 or less, one chunk extracted and
\* another whole chunk left in the buffer
C18_ExtractedOnceBelowThreshold ==
  /\ obs.event = "listen"
  /\ obs.vad # VAD_SILENCE
  /\ speech_counter <= MIN_SPEECH_LENGTH \div VAD_FRAME_SAMPLES
  /\ Len(obs.extractions) = 1
  /\ is_listening
  /\ Size(audio_buffer) >= TRANSCRIPTION_CHUNK_SIZE

\* C19: at most one recognition call is running, and exactly while the thread
\* of the loop is in it; a chunk call is given the chunk at the front of the
\* buffer, and the chunk calls of a cycle start at ever later samples.
C19_OneCallFrontToBack ==
  /\ loop.in_flight <= 1
  /\ loop.in_flight = 1 <=> loop.at = "call"
  /\ (loop.at = "call" /\ loop.site <= 2) => loop.starts[Len(loop.starts)] = loop.front
  /\ \A i \in 1..Len(loop.starts) : \A j \in (i + 1)..Len(loop.starts) :
       loop.starts[i] < loop.starts[j]

\* C19: a third chunk call is running and a frame has arrived meanwhile
C19_FrameArrivesDuringThirdCall ==
  /\ loop.at = "call"
  /\ loop.site <= 2
  /\ Len(loop.starts) = 3
  /\ loop.arrived > 0
  /\ loop.in_flight = 1

\* C20: no frame is kept waiting by a recognition call: when a call returns,
\* the frames that arrived while it ran have been taken.
C20_CaptureNotBlockedByCall == loop.stalled = 0

FrameRead == hist'.captured - hist.captured

\* this iteration extracted one chunk and did not finalize
OneExtraction ==
  /\ is_listening
  /\ obs'.event = "listen"
  /\ obs'.stopped = "no"
  /\ Len(obs'.extractions) = 1

C23_SentRemovesByChunkIndex ==
  [][(OneExtraction /\ obs'.extractions[1].gate) =>
       /\ obs'.extractions[1].overlap =
            (IF hist.prev_sent_overlap = -1
             THEN (IF variant = "capi" THEN TRANSCRIPTION_CHUNK_SIZE \div 32
                   ELSE TRANSCRIPTION_CHUNK_SIZE \div 16)
             ELSE (IF variant = "capi" THEN TRANSCRIPTION_CHUNK_SIZE \div 64
                   ELSE TRANSCRIPTION_CHUNK_SIZE \div 32))
       /\ obs'.extractions[1].removed = TRANSCRIPTION_CHUNK_SIZE - obs'.extractions[1].overlap
       /\ Size(audio_buffer') = Size(audio_buffer) + FrameRead - obs'.extractions[1].removed
       /\ obs'.extractions[1].first = hist.consumed + 1
       /\ Contiguous(audio_buffer', hist.consumed + obs'.extractions[1].removed + 1)
       /\ chunk_count' = chunk_count + 1
       /\ Len(obs'.calls) = 1
       /\ obs'.calls[1].kind = "chunk"
       /\ obs'.calls[1].samples = TRANSCRIPTION_CHUNK_SIZE
    ]_vars

\* C23: a second chunk of a cycle has been sent, with the smaller overlap
C23_SecondChunkSent ==
  /\ is_listening
  /\ obs.event = "listen"
  /\ Len(obs.extractions) = 1
  /\ obs.extractions[1].gate
  /\ chunk_count = 2
  /\ obs.extractions[1].overlap < hist.first_overlap

\* extraction i of an iteration and the buffer it left behind
KeptAfter(ex) == Erase(ex.chunk, TRANSCRIPTION_CHUNK_SIZE - ex.overlap)

\* C24: every extraction of an iteration found at least chunk size samples in
\* the buffer and took its first chunk size samples; the overlap samples it
\* retained are the last ones of the chunk it took, they are the front of the
\* buffer afterwards, and the next extraction, in the same iteration or in a
\* later one of the cycle, finds them as the first samples of its chunk.
C24_ChunkIsFrontAndOverlapCarries ==
  [][(is_listening /\ obs'.event = "listen" /\ obs'.extractions # <<>>) =>
       /\ \A i \in 1..Len(obs'.extractions) :
            /\ obs'.extractions[i].held >= TRANSCRIPTION_CHUNK_SIZE
            /\ Size(obs'.extractions[i].chunk) = TRANSCRIPTION_CHUNK_SIZE
            /\ Contiguous(obs'.extractions[i].chunk, obs'.extractions[i].first)
            /\ obs'.extractions[i].removed =
                 TRANSCRIPTION_CHUNK_SIZE - obs'.extractions[i].overlap
            /\ Size(KeptAfter(obs'.extractions[i])) = obs'.extractions[i].overlap
            /\ i > 1 =>
                 /\ obs'.extractions[i].held =
                      obs'.extractions[i - 1].held - obs'.extractions[i - 1].removed
                 /\ Plain(Take(obs'.extractions[i].chunk, obs'.extractions[i - 1].overlap))
                      = KeptAfter(obs'.extractions[i - 1])
       \* the first chunk of the iteration is the front of the buffer as read
       /\ obs'.extractions[1].first = hist.consumed + 1
       /\ obs'.extractions[1].held = Size(audio_buffer) + FrameRead
       /\ Plain(Take(obs'.extractions[1].chunk, Size(audio_buffer))) =
            Plain(Take(audio_buffer, TRANSCRIPTION_CHUNK_SIZE))
       \* and begins with what the extraction before it in the cycle retained
       /\ hist.prev_overlap # -1 =>
            /\ Size(audio_buffer) >= hist.prev_overlap
            /\ Plain(Take(obs'.extractions[1].chunk, hist.prev_overlap)) =
                 Plain(Take(audio_buffer, hist.prev_overlap))
       \* what the last extraction retained is the front of the buffer, unless
       \* the iteration finalized
       /\ obs'.stopped = "no" =>
            Plain(Take(audio_buffer',
                       obs'.extractions[Len(obs'.extractions)].overlap)) =
              KeptAfter(obs'.extractions[Len(obs'.extractions)])
    ]_vars

\* C24: between extractions the retained samples stay at the front of the buffer
C24_OverlapStaysInFront ==
  (is_listening /\ hist.prev_overlap # -1) =>
     /\ Size(audio_buffer) >= hist.prev_overlap
     /\ audio_buffer[1].id = hist.consumed + 1
     /\ Contiguous(audio_buffer, hist.consumed + 1)

\* C24: a later chunk of a cycle has been extracted; the cycle's earlier
\* extraction retained an overlap, and what this one retained is at the front
C24_LaterChunkExtracted ==
  /\ is_listening
  /\ obs.event = "listen"
  /\ obs.stopped = "no"
  /\ Len(obs.extractions) = 1
  /\ obs.extractions[1].chunk_count >= 1
  /\ hist.first_overlap > 0
  /\ obs.extractions[1].overlap > 0
  /\ Plain(Take(audio_buffer, obs.extractions[1].overlap)) =
       KeptAfter(obs.extractions[1])

\* the iteration of frame f with every recognition call answering nothing
QuietIteration(f) ==
  FullBranch(SpeechBranch(Heard(Session, f[1], f[2], f[3]), f[1], Nothing(variant)),
             Nothing(variant))

\* the text a call returned was not kept: it is empty, or the cli variant's
\* chunk filter rejected it
NotKept(text) == text = <<>> \/ (variant = "cli" /\ isHallucination(variant, text))

\* C25: an iteration whose one extraction passed the gate leaves the buffer,
\* the chunk count and the silence and speech counters exactly as the same
\* frame would with an empty recognition result, whatever text the call
\* returned; when the text is empty or filtered the transcript and the started
\* flag are left as they were, however many such results precede it.
C25_BookkeepingIgnoresText ==
  [][(OneExtraction /\ obs'.extractions[1].gate) =>
       /\ Len(obs'.calls) = 1
       /\ \E f \in Frames(Session) :
            /\ f[1] = obs'.vad
            /\ audio_buffer' = QuietIteration(f).audio_buffer
            /\ chunk_count' = QuietIteration(f).chunk_count
            /\ silence_counter' = QuietIteration(f).silence_counter
            /\ speech_counter' = QuietIteration(f).speech_counter
       /\ chunk_count' = chunk_count + 1
       /\ Size(audio_buffer') =
            Size(audio_buffer) + FrameRead
              - (TRANSCRIPTION_CHUNK_SIZE - obs'.extractions[1].overlap)
       /\ NotKept(obs'.calls[1].text) =>
            /\ current_transcription' = current_transcription
            /\ transcription_started' = transcription_started
       /\ ~NotKept(obs'.calls[1].text) =>
            /\ current_transcription' =
                 current_transcription \o obs'.calls[1].text \o <<" ">>
            /\ transcription_started'
    ]_vars

\* C25: in the cli variant a second chunk in a row was sent and its text
\* filtered; nothing of either chunk is in the transcript
C25_TwoFilteredInARow ==
  /\ is_listening
  /\ obs.event = "listen"
  /\ Len(obs.extractions) = 1
  /\ obs.extractions[1].gate
  /\ Len(obs.calls) = 1
  /\ obs.calls[1].text # <<>>
  /\ NotKept(obs.calls[1].text)
  /\ chunk_count >= 2
  /\ ~transcription_started
  /\ current_transcription = <<>>

\* C26: a Listening iteration whose frame is classified silence raises the
\* silence counter by 1 and leaves the speech counter at 0, so that the speech
\* counter is the number of speech frames since the last silence frame.
C26_SilenceResetsSpeechRun ==
  [][(is_listening /\ obs'.event = "listen" /\ obs'.vad = VAD_SILENCE) =>
       /\ silence_counter' = silence_counter + 1
       /\ speech_counter' = 0
    ]_vars

\* C27: a Listening iteration whose frame is classified speech raises the
\* speech counter by 1 and sets the silence counter to 0, and its speech
\* branch calls processAudioChunk exactly when the speech counter is then
\* above 3; on a silence frame the speech branch makes no call.
C27_SpeechCountsAndAttempts ==
  [][(is_listening /\ obs'.event = "listen") =>
       IF obs'.vad # VAD_SILENCE
       THEN /\ speech_counter' = speech_counter + 1
            /\ silence_counter' = 0
            /\ (\E i \in 1..Len(obs'.attempts) : obs'.attempts[i].site = "speech")
                 <=> speech_counter' > 3
            /\ Cardinality({i \in 1..Len(obs'.attempts) :
                              obs'.attempts[i].site = "speech"}) <= 1
       ELSE \A i \in 1..Len(obs'.attempts) : obs'.attempts[i].site # "speech"
    ]_vars

\* C27: the fourth speech frame of a cycle, after a silence frame had raised
\* the silence counter: the speech branch called processAudioChunk
C27_FourthSpeechFrame ==
  /\ is_listening
  /\ obs.event = "listen"
  /\ obs.vad # VAD_SILENCE
  /\ speech_counter = 4
  /\ silence_counter = 0
  /\ hist.silence_frames > 0
  /\ obs.attempts # <<>>
  /\ obs.attempts[1].site = "speech"

\* C28: in every Listening iteration after whose append the buffer holds at
\* least chunk size samples, a chunk is extracted in that iteration, from the
\* buffer as appended, whatever the classification of the frame and the value
\* of the speech counter.
C28_FullBufferIsDrained ==
  [][(/\ is_listening
      /\ obs'.event = "listen"
      /\ Size(audio_buffer) + FrameRead >= TRANSCRIPTION_CHUNK_SIZE) =>
       /\ obs'.extractions # <<>>
       /\ obs'.extractions[1].held = Size(audio_buffer) + FrameRead
       /\ obs'.extractions[1].first = hist.consumed + 1
       /\ obs'.stopped = "no" =>
            Size(audio_buffer') <= Size(audio_buffer) + FrameRead
                                     - obs'.extractions[1].removed
    ]_vars

\* C28: a chunk has been extracted in a cycle in which every frame so far was
\* classified silence
C28_DrainedWithoutSpeech ==
  /\ is_listening
  /\ obs.event = "listen"
  /\ obs.vad = VAD_SILENCE
  /\ speech_counter = 0
  /\ hist.silence_frames = hist.fed_in_cycle
  /\ obs.extractions # <<>>
  /\ obs.attempts = <<[site |-> "full", held |-> obs.extractions[1].held]>>

\* C29: an iteration that finalized, by the silence stop or by the safety
\* stop, ends Idle, and in every Idle state the buffer is empty, the
\* transcript is empty, started is false and no sample is counted as recorded.
C29_IdleIsCleared ==
  /\ obs.stopped # "no" => (~is_listening /\ obs.finals # <<>>)
  /\ ~is_listening =>
       /\ audio_buffer = <<>>
       /\ current_transcription = <<>>
       /\ ~transcription_started
       /\ recorded_samples = 0

\* C29: a cycle with a transcript has just been finalized after a final pass
C29_FinalizedAfterFinalPass ==
  /\ ~is_listening
  /\ obs.stopped = "silence"
  /\ Len(obs.finals) = 1
  /\ obs.finals[1].started
  /\ obs.finals[1].samples > 0
  /\ obs.finals[1].calls = 1
  /\ obs.reports # <<>>
  /\ obs.reports[1].text # <<>>
  /\ obs.reports[1].samples > 0

\* C30: an iteration that starts Idle gives the frame to RunDetection and to
\* nothing else: no sample enters the buffer, RunVad and the recognition
\* engine are not invoked; when the detector does not fire, the counters, the
\* transcript and the recorded-sample count stay as they were, and when it
\* fires the session is Listening with an empty buffer and no sample recorded.
\* An iteration that starts Listening appends its frame, counts its samples
\* and gives it to RunVad, and does not invoke RunDetection.
C30_FrameGoesToOneConsumer ==
  [][IF ~is_listening
     THEN /\ obs'.invoked = <<"RunDetection">>
          /\ obs'.event \in {"idle", "trigger"}
          /\ obs'.calls = <<>>
          /\ obs'.extractions = <<>>
          /\ obs'.attempts = <<>>
          /\ audio_buffer' = <<>>
          /\ audio_buffer' = audio_buffer
          /\ recorded_samples' = recorded_samples
          /\ current_transcription' = current_transcription
          /\ transcription_started' = transcription_started
          /\ is_listening' <=> obs'.event = "trigger"
          /\ obs'.event = "idle" =>
               /\ silence_counter' = silence_counter
               /\ speech_counter' = speech_counter
               /\ chunk_count' = chunk_count
               /\ hist'.captured = hist.captured
          /\ obs'.event = "trigger" =>
               /\ hist'.captured = 0
               /\ silence_counter' = 0
               /\ speech_counter' = 0
               /\ chunk_count' = 0
     ELSE /\ obs'.invoked = <<"RunVad">>
          /\ obs'.event = "listen"
          /\ obs'.vad \in VadResults
          /\ FrameRead > 0
          /\ obs'.stopped = "no" =>
               /\ recorded_samples' = recorded_samples + FrameRead
               /\ Size(audio_buffer') =
                    Size(audio_buffer) + FrameRead
                      - (IF obs'.extractions = <<>> THEN 0
                         ELSE obs'.extractions[1].removed)
               /\ Contiguous(audio_buffer', hist'.consumed + 1)
               /\ hist'.consumed + Size(audio_buffer') = hist'.captured
          /\ silence_counter' # silence_counter \/ speech_counter' # speech_counter
    ]_vars

\* C30: the first frame after a trigger has been appended: the buffer holds
\* that frame and nothing of the frame the trigger fired on
C30_FirstFrameAfterTrigger ==
  /\ is_listening
  /\ obs.event = "listen"
  /\ obs.invoked = <<"RunVad">>
  /\ hist.fed_in_cycle = 1
  /\ hist.cycles = 2
  /\ Size(audio_buffer) = FrameSamples
  /\ recorded_samples = FrameSamples
  /\ audio_buffer[1].id = 1

\* what the program holds and what the last iteration did, without the record
\* of what the trigger found
Behaviour(s) ==
  [is_listening |-> s.is_listening, audio_buffer |-> s.audio_buffer,
   silence_counter |-> s.silence_counter, speech_counter |-> s.speech_counter,
   current_transcription |-> s.current_transcription,
   transcription_started |-> s.transcription_started,
   chunk_count |-> s.chunk_count, recorded_samples |-> s.recorded_samples,
   obs |-> [s.obs EXCEPT !.left = <<>>]]

\* C31: from the trigger on, the session and a session constructed anew at
\* that trigger and given the same frames, classifications and recognition
\* answers hold the same fields and make the same extractions, recognition
\* calls, reports and stops in every iteration, whatever the counters the
\* last cycle left and however it ended.
C31_CycleAsFromNew ==
  applied.op = "twin" =>
    Behaviour([Session EXCEPT !.obs = obs]) = Behaviour(applied.s)

\* C31: in a second cycle, begun with counters the first cycle left above 0, a
\* chunk has been sent to recognition
C31_SecondCycleSends ==
  /\ applied.op = "twin"
  /\ hist.cycles = 2
  /\ applied.stale
  /\ applied.ended = "silence"
  /\ obs.event = "listen"
  /\ obs.calls # <<>>
  /\ chunk_count = 1

\* C32: given the same segment texts for a chunk, the two variants append the
\* same text to the transcript and agree on whether it has started.
C32_VariantsAppendSame ==
  \A segs \in RawAnswers :
    /\ AppendTranscribed(Session, AssembledText["capi"][segs],
                         AssembledAccepted["capi"][segs]).current_transcription
         = AppendTranscribed(Session, AssembledText["cli"][segs],
                             AssembledAccepted["cli"][segs]).current_transcription
    /\ AppendTranscribed(Session, AssembledText["capi"][segs],
                         AssembledAccepted["capi"][segs]).transcription_started
         = AppendTranscribed(Session, AssembledText["cli"][segs],
                             AssembledAccepted["cli"][segs]).transcription_started

C34_StartedIffTranscript ==
  [][/\ transcription_started' <=> current_transcription' # <<>>
     /\ (~transcription_started /\ transcription_started') =>
          \E i \in 1..Len(obs'.calls) :
            /\ obs'.calls[i].kind = "chunk"
            /\ obs'.calls[i].text # <<>>
            /\ ~NotKept(obs'.calls[i].text)
            /\ obs'.calls[i].appended = obs'.calls[i].text \o <<" ">>
     /\ \A i \in 1..Len(obs'.finals) :
          obs'.finals[i].calls > 0 => obs'.finals[i].started
     /\ \A i \in 1..Len(obs'.calls) :
          obs'.calls[i].kind # "chunk" =>
            (transcription_started \/ \E j \in 1..(i - 1) : obs'.calls[j].appended # <<>>)
    ]_vars

\* C34: the first kept text of a cycle has just been appended by a chunk call
C34_FirstTextAppended ==
  /\ is_listening
  /\ transcription_started
  /\ Len(obs.calls) = 1
  /\ obs.calls[1].kind = "chunk"
  /\ obs.calls[1].appended # <<>>
  /\ current_transcription = obs.calls[1].appended
  /\ chunk_count > 1

\* the final passes among the recognition calls of the last iteration
FinalPasses == {i \in 1..Len(obs.calls) : obs.calls[i].kind = "final"}

\* C35: a step that leaves Listening for Idle is an iteration in which
\* finalizeTranscription ran; an iteration runs it at most once, also when
\* the silence counter is at the threshold and more than 960000 samples were
\* held, and then reports at most once and makes at most one final pass; the
\* iteration that ran it ends Idle, so a cycle is finalized once.
C35_FinalizedOncePerCycle ==
  [][/\ (is_listening /\ ~is_listening') => Len(obs'.finals) = 1
     /\ Len(obs'.finals) <= 1
     /\ Len(obs'.reports) <= 1
     /\ Cardinality({i \in 1..Len(obs'.calls) : obs'.calls[i].kind = "final"}) <= 1
     /\ obs'.finals # <<>> => (is_listening /\ ~is_listening' /\ obs'.stopped # "no")
     /\ obs'.stopped # "no" => obs'.finals # <<>>
     /\ (obs'.stopped # "no" /\ silence_counter' >= SILENCE_THRESHOLD) =>
          obs'.stopped = "silence"
    ]_vars

\* C35: the silence stop has finalized a started cycle whose buffer held more
\* than 960000 samples: one final pass, one report, and the cutoff test found
\* the buffer empty
C35_BothConditionsMet ==
  /\ ~is_listening
  /\ obs.stopped = "silence"
  /\ silence_counter = SILENCE_THRESHOLD
  /\ Len(obs.finals) = 1
  /\ obs.finals[1].samples > Cutoff
  /\ obs.finals[1].started
  /\ Cardinality(FinalPasses) = 1
  /\ Len(obs.reports) = 1

\* the extractions of the iteration just made that passed the gate
SentIn(o) == {i \in 1..Len(o.extractions) : o.extractions[i].gate}

\* C36: in a Listening iteration the chunk count rises by the number of
\* extractions that passed the gate and by nothing else; a sent chunk keeps
\* the first-chunk overlap exactly when no chunk of the cycle was sent before
\* it, however many were skipped before it, so one chunk of a cycle keeps it.
C36_CountFollowsSentChunks ==
  [][(is_listening /\ obs'.event = "listen") =>
       /\ chunk_count' = chunk_count + Cardinality(SentIn(obs'))
       /\ chunk_count = 0 <=> hist.prev_sent_overlap = -1
       /\ \A i \in 1..Len(obs'.extractions) :
            /\ obs'.extractions[i].chunk_count =
                 chunk_count + Cardinality({j \in SentIn(obs') : j < i})
            /\ obs'.extractions[i].gate =>
                 (obs'.extractions[i].overlap = FirstOverlap(variant)
                    <=> obs'.extractions[i].chunk_count = 0)
            /\ ~obs'.extractions[i].gate =>
                 obs'.extractions[i].overlap = SkippedOverlap(variant)
    ]_vars

\* C36: the first chunk sent in a cycle comes after a skipped one and keeps
\* the first-chunk overlap
C36_FirstSentAfterSkipped ==
  /\ is_listening
  /\ obs.event = "listen"
  /\ Len(obs.extractions) = 1
  /\ obs.extractions[1].gate
  /\ obs.extractions[1].first > 1
  /\ hist.first_overlap = SkippedOverlap(variant)
  /\ chunk_count = 1
  /\ obs.extractions[1].overlap = FirstOverlap(variant)

\* C37: a finalization makes its final pass exactly when started is true and
\* the buffer holds at least half a chunk, whatever the samples are, all zero
\* included; the pass receives the whole buffer in one call, and the chunk
\* count changes only by the chunks the iteration sent before.
C37_FinalPassUngated ==
  [][(is_listening /\ obs'.stopped # "no") =>
       /\ Len(obs'.finals) = 1
       /\ obs'.finals[1].calls =
            (IF obs'.finals[1].started
                /\ obs'.finals[1].samples >= TRANSCRIPTION_CHUNK_SIZE \div 2
             THEN 1 ELSE 0)
       /\ obs'.finals[1].calls = 1 =>
            /\ obs'.calls[Len(obs'.calls)].kind = "final"
            /\ obs'.calls[Len(obs'.calls)].samples = obs'.finals[1].samples
            /\ obs'.calls[Len(obs'.calls)].first = hist'.consumed + 1
       /\ chunk_count' = chunk_count + Cardinality(SentIn(obs'))
    ]_vars

\* C37: a final pass has been made on a buffer of zeros
C37_FinalPassOnZeros ==
  /\ obs.stopped = "silence"
  /\ Len(obs.finals) = 1
  /\ obs.finals[1].calls = 1
  /\ obs.finals[1].peak = 0
  /\ obs.finals[1].samples >= TRANSCRIPTION_CHUNK_SIZE \div 2
  /\ obs.extractions = <<>>
  /\ chunk_count > 0

\* C38: in a Listening iteration the silence counter becomes the old value
\* plus 1 when RunVad returned -2 and 0 for every other result, the error
\* result -1 included, and the speech counter rises by 1 for every other
\* result; the silence stop is taken only on a frame classified -2 that brings
\* the counter to 30, that is after 30 such frames in a row.
C38_OnlySilenceCountsAsSilence ==
  [][(is_listening /\ obs'.event = "listen") =>
       /\ obs'.vad \in {-2, -1, 0}
       /\ silence_counter' = (IF obs'.vad = -2 THEN silence_counter + 1 ELSE 0)
       /\ speech_counter' = (IF obs'.vad = -2 THEN speech_counter ELSE speech_counter + 1)
       /\ obs'.stopped = "silence" =>
            /\ obs'.vad = -2
            /\ silence_counter = 29
            /\ silence_counter' = 30
            /\ hist'.silence_frames >= 30
       /\ (obs'.vad # -2 \/ silence_counter < 29) => obs'.stopped # "silence"
    ]_vars

\* C38: a frame with the error result has come after silence frames only: the
\* silence counter is back at 0 and the speech counter is 1
C38_ErrorResultAfterSilence ==
  /\ is_listening
  /\ obs.event = "listen"
  /\ obs.vad = -1
  /\ hist.fed_in_cycle >= 3
  /\ hist.silence_frames = hist.fed_in_cycle - 1
  /\ silence_counter = 0
  /\ speech_counter = 1

\* C39: in a Listening iteration whose frame is no longer than the chunk size
\* less the overlap retained after a skipped chunk, processAudioChunk is called
\* at most twice, once from the speech branch and then once from the
\* buffer-full check, at most one of the calls finds a whole chunk and
\* extracts it, and at most one chunk recognition call is made; when the speech
\* branch extracted, the buffer-full check finds less than a chunk and makes
\* no call.
C39_OneChunkPerFrame ==
  [][(/\ is_listening
      /\ obs'.event = "listen"
      /\ FrameRead <= TRANSCRIPTION_CHUNK_SIZE - SkippedOverlap(variant)) =>
       /\ Len(obs'.attempts) <= 2
       /\ Len(obs'.extractions) <= 1
       /\ Cardinality({i \in 1..Len(obs'.calls) : obs'.calls[i].kind = "chunk"}) <= 1
       /\ Cardinality({i \in 1..Len(obs'.calls) : obs'.calls[i].kind = "chunk"})
            <= Len(obs'.extractions)
       /\ \A i \in 1..Len(obs'.attempts) :
            obs'.attempts[i].site = (IF /\ i = 1
                                        /\ obs'.vad # VAD_SILENCE
                                        /\ speech_counter + 1 >
                                             MIN_SPEECH_LENGTH \div VAD_FRAME_SAMPLES
                                     THEN "speech" ELSE "full")
       /\ (obs'.attempts # <<>> /\ obs'.attempts[1].site = "speech"
             /\ obs'.attempts[1].held >= TRANSCRIPTION_CHUNK_SIZE) =>
            /\ Len(obs'.extractions) = 1
            /\ obs'.extractions[1].held = obs'.attempts[1].held
            /\ Len(obs'.attempts) = 1
            /\ obs'.stopped = "no" => Size(audio_buffer') < TRANSCRIPTION_CHUNK_SIZE
    ]_vars

\* C39: a frame of the largest size was read onto a buffer in a speech run
\* longer than the minimum; the speech branch extracted a chunk and sent it,
\* and that was the iteration's only extraction and only recognition call
C39_SpeechBranchTookTheChunk ==
  /\ is_listening
  /\ obs.event = "listen"
  /\ obs.stopped = "no"
  /\ speech_counter > MIN_SPEECH_LENGTH \div VAD_FRAME_SAMPLES
  /\ obs.attempts # <<>>
  /\ obs.attempts[1].site = "speech"
  /\ obs.attempts[1].held >= 2 * LargestFrame(variant)
  /\ Len(obs.extractions) = 1
  /\ obs.extractions[1].gate
  /\ Len(obs.calls) = 1
  /\ Size(audio_buffer) < TRANSCRIPTION_CHUNK_SIZE
====
